---- MODULE Spec2Model ----
(***************************************************************************)
(* LemBots: the tick-based multi-robot simulation engine                   *)
(* (web/src/engine/sim.ts, rules.ts, world.ts) as a state machine.         *)
(* One action, Tick, is one call of stepSimulation on the current          *)
(* SimulationState with an arbitrary per-robot action array.  everPressed  *)
(* records whether a blocking robot has stood on a pressure plate at some  *)
(* tick boundary of the run.  The program interpreter (stepVm), the        *)
(* evaluator (evaluate) and the beam search (runSolverSearch) are further  *)
(* state machines over their own variables, each with its own              *)
(* specification.                                                          *)
(***************************************************************************)
EXTENDS Integers, Sequences, FiniteSets, TLC

VARIABLES state, everPressed, vm, pc, stack, context, result, emitted, spin,
          evaluation, search, worker, app

simVars == <<state, everPressed>>

vmVars == <<vm, pc, stack, context, result, emitted, spin>>

solverVars == <<evaluation, search, worker>>

vars == <<simVars, vmVars, solverVars, app>>

(***************************************************************************)
(* Bounds of the model.                                                    *)
(***************************************************************************)
MaxTicks == 4

MaxVmSteps == 5

(***************************************************************************)
(* world.ts: tile types and tile queries.                                  *)
(***************************************************************************)
Empty == "Empty"
Wall == "Wall"
Goal == "Goal"
Hazard == "Hazard"
PressurePlate == "PressurePlate"
Door == "Door"
Water == "Water"
Raft == "Raft"
Jetty == "Jetty"

createWorld(grid) ==
  [grid |-> grid,
   width |-> IF Len(grid) > 0 THEN Len(grid[1]) ELSE 0,
   height |-> Len(grid)]

isInsideWorld(world, x, y) ==
  x >= 0 /\ y >= 0 /\ x < world.width /\ y < world.height

getTile(world, x, y) ==
  IF ~isInsideWorld(world, x, y) THEN Wall ELSE world.grid[y + 1][x + 1]

isWall(world, x, y) == getTile(world, x, y) = Wall

isGoal(world, x, y) == getTile(world, x, y) = Goal

isHazard(world, x, y) ==
  getTile(world, x, y) = Hazard \/ getTile(world, x, y) = Water

isWater(world, x, y) == getTile(world, x, y) = Water

isRaft(world, x, y) == getTile(world, x, y) = Raft

isPressurePlate(world, x, y) == getTile(world, x, y) = PressurePlate

isDoor(world, x, y) == getTile(world, x, y) = Door

(***************************************************************************)
(* rules.ts: movement rules for one robot.                                 *)
(***************************************************************************)
NoAction == "undefined"

RobotAction ==
  {"MOVE_FORWARD", "TURN_LEFT", "TURN_RIGHT", "WAIT", "SIGNAL_ON", "SIGNAL_OFF"}

getForwardPosition(position, direction) ==
  CASE direction = 0 -> [x |-> position.x, y |-> position.y - 1]
    [] direction = 1 -> [x |-> position.x + 1, y |-> position.y]
    [] direction = 2 -> [x |-> position.x, y |-> position.y + 1]
    [] direction = 3 -> [x |-> position.x - 1, y |-> position.y]
    [] OTHER -> [x |-> position.x, y |-> position.y]

turnLeft(direction) == (direction + 3) % 4

turnRight(direction) == (direction + 1) % 4

applyMoveForwardUnharmed(world, nextState, forward) ==
  IF isWall(world, forward.x, forward.y) THEN nextState
  ELSE [nextState EXCEPT !.x = forward.x, !.y = forward.y]

applyMoveForward(world, nextState, forward) ==
  IF isWall(world, forward.x, forward.y) THEN nextState
  ELSE [nextState EXCEPT
          !.x = forward.x,
          !.y = forward.y,
          !.alive = IF isHazard(world, forward.x, forward.y) THEN FALSE ELSE @]

applyGoal(world, nextState) ==
  IF isGoal(world, nextState.x, nextState.y)
    THEN [nextState EXCEPT !.reachedGoal = TRUE]
    ELSE nextState

applyAction(world, robot, action) ==
  IF ~robot.alive \/ robot.reachedGoal THEN robot
  ELSE applyGoal(world,
         IF action = "TURN_LEFT"
           THEN [robot EXCEPT !.direction = turnLeft(robot.direction)]
         ELSE IF action = "TURN_RIGHT"
           THEN [robot EXCEPT !.direction = turnRight(robot.direction)]
         ELSE IF action = "MOVE_FORWARD"
           THEN applyMoveForward(world, robot,
                                 getForwardPosition(robot, robot.direction))
         ELSE robot)

(***************************************************************************)
(* sim.ts: exits, spawning and construction.                               *)
(***************************************************************************)
Null == <<>>

Some(n) == <<n>>

isExitTile(world, exits, x, y) ==
  IF Len(exits) > 0
    THEN \E i \in DOMAIN exits : exits[i].x = x /\ exits[i].y = y
    ELSE isGoal(world, x, y)

applyExitStatus(world, exits, robot) ==
  IF robot.reachedGoal THEN robot
  ELSE IF isExitTile(world, exits, robot.x, robot.y)
    THEN [robot EXCEPT !.reachedGoal = TRUE]
  ELSE robot

createSpawnedRobotZeroBased(spawner, index) ==
  [id |-> <<"robot", index>>,
   x |-> spawner.x,
   y |-> spawner.y,
   direction |-> spawner.dir,
   alive |-> TRUE,
   reachedGoal |-> FALSE]

createSpawnedRobot(spawner, index) ==
  [id |-> <<"robot", index + 1>>,
   x |-> spawner.x,
   y |-> spawner.y,
   direction |-> spawner.dir,
   alive |-> TRUE,
   reachedGoal |-> FALSE]

initializeRobots(spawner, world, exits) ==
  IF spawner.count <= 0
    THEN [robots |-> <<>>, spawnedCount |-> 0, nextSpawnTick |-> Null]
  ELSE IF spawner.intervalTicks <= 0
    THEN [robots |-> [index \in 1..spawner.count |->
                        applyExitStatus(world, exits,
                                        createSpawnedRobot(spawner, index - 1))],
          spawnedCount |-> spawner.count,
          nextSpawnTick |-> Null]
  ELSE [robots |-> <<applyExitStatus(world, exits, createSpawnedRobot(spawner, 0))>>,
        spawnedCount |-> 1,
        nextSpawnTick |-> Some(spawner.intervalTicks)]

sortPositions(positions) ==
  SortSeq(positions, LAMBDA a, b : a.y < b.y \/ (a.y = b.y /\ a.x < b.x))

listPositionsForTile(world, tileType) ==
  LET cells == [k \in 1..(world.width * world.height) |->
                  [x |-> (k - 1) % world.width, y |-> (k - 1) \div world.width]]
  IN SelectSeq(cells, LAMBDA p : world.grid[p.y + 1][p.x + 1] = tileType)

buildRaftRoute(origin, jettyPositions) ==
  LET sortedJetties ==
        SelectSeq(sortPositions(jettyPositions),
                  LAMBDA jetty : jetty.x # origin.x \/ jetty.y # origin.y)
  IN <<origin>> \o sortedJetties

initializeRafts(world, jettyPositions) ==
  LET rafts == listPositionsForTile(world, Raft)
  IN [i \in DOMAIN rafts |->
        [x |-> rafts[i].x,
         y |-> rafts[i].y,
         route |-> buildRaftRoute(rafts[i], jettyPositions),
         dockIndex |-> 0,
         returnIndex |-> Null]]

isBlockingRobot(robot) == robot.alive /\ ~robot.reachedGoal

isPressurePlatePressed(world, robots) ==
  \E i \in DOMAIN robots :
    isBlockingRobot(robots[i]) /\ isPressurePlate(world, robots[i].x, robots[i].y)

isDoorOpenHeld(world, robots, doorUnlocked) ==
  isPressurePlatePressed(world, robots)

isDoorOpen(world, robots, doorUnlocked) ==
  doorUnlocked \/ isPressurePlatePressed(world, robots)

positionKey(x, y) == <<x, y>>

buildOccupiedPositions(robots) ==
  {positionKey(robots[i].x, robots[i].y) :
     i \in {j \in DOMAIN robots : isBlockingRobot(robots[j])}}

isJettyPosition(jettyPositions, x, y) ==
  \E i \in DOMAIN jettyPositions : jettyPositions[i].x = x /\ jettyPositions[i].y = y

savedCountOf(robots) ==
  Cardinality({i \in DOMAIN robots : robots[i].reachedGoal})

createSimulation(config) ==
  LET init == initializeRobots(config.spawner, config.world, config.exits)
      jettyPositions == listPositionsForTile(config.world, Jetty)
  IN [world |-> config.world,
      robots |-> init.robots,
      spawner |-> config.spawner,
      exits |-> config.exits,
      status |-> IF savedCountOf(init.robots) >= config.requiredSaved
                   THEN "won" ELSE "running",
      stepCount |-> 0,
      maxSteps |-> config.maxSteps,
      requiredSaved |-> config.requiredSaved,
      spawnedCount |-> init.spawnedCount,
      nextSpawnTick |-> init.nextSpawnTick,
      doorUnlocked |-> isPressurePlatePressed(config.world, init.robots),
      globalSignal |-> FALSE,
      raftStates |-> initializeRafts(config.world, jettyPositions),
      jettyPositions |-> jettyPositions]

cloneWorldGrid(world) == world.grid

setTile(grid, x, y, tileType) == [grid EXCEPT ![y + 1][x + 1] = tileType]

(***************************************************************************)
(* sim.ts moveRafts: the body of raftStates.map for one raft.  acc carries *)
(* the closure variables nextWorldGrid, nextRobots and occupied, and the   *)
(* raft states mapped so far.                                              *)
(***************************************************************************)
moveRaft(s, raft, acc) ==
  LET robotsOnRaft ==
        {i \in DOMAIN acc.robots :
           /\ isBlockingRobot(acc.robots[i])
           /\ acc.robots[i].x = raft.x
           /\ acc.robots[i].y = raft.y}
      hasRobot == robotsOnRaft # {}
      stay == [acc EXCEPT !.raftStates = Append(@, raft)]
      vacated == IF isJettyPosition(s.jettyPositions, raft.x, raft.y)
                   THEN Jetty ELSE Water
  IN
  IF Len(raft.route) < 2 THEN stay
  ELSE IF hasRobot THEN
    LET destinationIndex == (raft.dockIndex + 1) % Len(raft.route)
        destination == raft.route[destinationIndex + 1]
        destinationKey == positionKey(destination.x, destination.y)
        hasBlockingAtDestination ==
          /\ destinationKey \in acc.occupied
          /\ ~\E i \in robotsOnRaft :
                acc.robots[i].x = destination.x /\ acc.robots[i].y = destination.y
    IN IF hasBlockingAtDestination THEN stay
       ELSE [grid |-> setTile(setTile(acc.grid, raft.x, raft.y, vacated),
                              destination.x, destination.y, Raft),
             robots |-> [i \in DOMAIN acc.robots |->
                           IF acc.robots[i].x = raft.x /\ acc.robots[i].y = raft.y
                             THEN [acc.robots[i] EXCEPT !.x = destination.x,
                                                        !.y = destination.y]
                             ELSE acc.robots[i]],
             occupied |-> (acc.occupied \ {positionKey(raft.x, raft.y)})
                            \cup {destinationKey},
             raftStates |-> Append(acc.raftStates,
                                   [raft EXCEPT !.x = destination.x,
                                                !.y = destination.y,
                                                !.dockIndex = destinationIndex,
                                                !.returnIndex = Some(raft.dockIndex)])]
  ELSE IF raft.returnIndex # Null /\ raft.dockIndex # raft.returnIndex[1] THEN
    LET destination == raft.route[raft.returnIndex[1] + 1]
        destinationKey == positionKey(destination.x, destination.y)
    IN IF destinationKey \in acc.occupied THEN stay
       ELSE [grid |-> setTile(setTile(acc.grid, raft.x, raft.y, vacated),
                              destination.x, destination.y, Raft),
             robots |-> acc.robots,
             occupied |-> (acc.occupied \ {positionKey(raft.x, raft.y)})
                            \cup {destinationKey},
             raftStates |-> Append(acc.raftStates,
                                   [raft EXCEPT !.x = destination.x,
                                                !.y = destination.y,
                                                !.dockIndex = raft.returnIndex[1],
                                                !.returnIndex = Null])]
  ELSE stay

RECURSIVE moveRaftsFrom(_, _, _)
moveRaftsFrom(s, index, acc) ==
  IF index > Len(s.raftStates)
    THEN [world |-> [s.world EXCEPT !.grid = acc.grid],
          robots |-> acc.robots,
          raftStates |-> acc.raftStates]
    ELSE moveRaftsFrom(s, index + 1, moveRaft(s, s.raftStates[index], acc))

moveRafts(s, robots) ==
  IF Len(s.raftStates) = 0
    THEN [world |-> s.world, robots |-> robots, raftStates |-> s.raftStates]
    ELSE moveRaftsFrom(s, 1,
                       [grid |-> cloneWorldGrid(s.world),
                        robots |-> robots,
                        occupied |-> buildOccupiedPositions(robots),
                        raftStates |-> <<>>])

spawnNextRobotUngated(s, occupied) ==
  LET same == [robots |-> s.robots,
               spawnedCount |-> s.spawnedCount,
               nextSpawnTick |-> s.nextSpawnTick]
  IN
  IF s.spawner.count <= s.spawnedCount THEN same
  ELSE IF s.spawner.intervalTicks <= 0 THEN same
  ELSE IF s.nextSpawnTick = Null \/ s.stepCount < s.nextSpawnTick[1] THEN same
  ELSE [robots |-> Append(s.robots, createSpawnedRobot(s.spawner, s.spawnedCount)),
        spawnedCount |-> s.spawnedCount + 1,
        nextSpawnTick |-> Some(s.nextSpawnTick[1] + s.spawner.intervalTicks)]

spawnNextRobot(s, occupied) ==
  LET same == [robots |-> s.robots,
               spawnedCount |-> s.spawnedCount,
               nextSpawnTick |-> s.nextSpawnTick]
  IN
  IF s.spawner.count <= s.spawnedCount THEN same
  ELSE IF s.spawner.intervalTicks <= 0 THEN same
  ELSE IF s.nextSpawnTick = Null \/ s.stepCount < s.nextSpawnTick[1] THEN same
  ELSE IF positionKey(s.spawner.x, s.spawner.y) \in occupied THEN same
  ELSE [robots |-> Append(s.robots, createSpawnedRobot(s.spawner, s.spawnedCount)),
        spawnedCount |-> s.spawnedCount + 1,
        nextSpawnTick |-> Some(s.nextSpawnTick[1] + s.spawner.intervalTicks)]

(***************************************************************************)
(* sim.ts stepSimulation: the body of spawned.robots.map for one robot.    *)
(* acc carries the robots mapped so far and the closure variables          *)
(* nextOccupied and globalSignal that the callback updates.                *)
(***************************************************************************)
isBlockedWallOnly(s, doorOpen, x, y) == isWall(s.world, x, y)

isBlocked(s, doorOpen, x, y) ==
  isWall(s.world, x, y) \/ (isDoor(s.world, x, y) /\ ~doorOpen)

signalAfterOnly(action, globalSignal) ==
  IF action = "SIGNAL_ON" THEN TRUE
  ELSE globalSignal

signalAfter(action, globalSignal) ==
  IF action = "SIGNAL_ON" THEN TRUE
  ELSE IF action = "SIGNAL_OFF" THEN FALSE
  ELSE globalSignal

releaseCell(robot, nextOccupied) ==
  IF isBlockingRobot(robot)
    THEN nextOccupied \ {positionKey(robot.x, robot.y)}
    ELSE nextOccupied

claimCell(nextRobot, nextOccupied) ==
  IF isBlockingRobot(nextRobot)
    THEN nextOccupied \cup {positionKey(nextRobot.x, nextRobot.y)}
    ELSE nextOccupied

actOnRobotUnchecked(s, doorOpen, robot, action, nextOccupied, forward) ==
  applyAction(s.world, robot, action)

actOnRobot(s, doorOpen, robot, action, nextOccupied, forward) ==
  IF action = "MOVE_FORWARD" /\ robot.alive /\ ~robot.reachedGoal
    THEN IF /\ positionKey(forward.x, forward.y) \notin nextOccupied
            /\ ~isBlocked(s, doorOpen, forward.x, forward.y)
           THEN applyAction(s.world, robot, action)
           ELSE robot
    ELSE applyAction(s.world, robot, action)

recordRobot(acc, nextRobot, nextOccupied, globalSignal) ==
  [robots |-> Append(acc.robots, nextRobot),
   nextOccupied |-> claimCell(nextRobot, nextOccupied),
   globalSignal |-> globalSignal]

resolveRobotLiveDoor(s, doorOpen, robot, action, acc) ==
  IF action = NoAction
    THEN [acc EXCEPT !.robots = Append(@, applyExitStatus(s.world, s.exits, robot))]
    ELSE recordRobot(acc,
                     applyExitStatus(s.world, s.exits,
                       actOnRobot(s, doorOpen \/ isPressurePlatePressed(s.world, acc.robots),
                                  robot, action,
                                  releaseCell(robot, acc.nextOccupied),
                                  getForwardPosition(robot, robot.direction))),
                     releaseCell(robot, acc.nextOccupied),
                     signalAfter(action, acc.globalSignal))

resolveRobotSnapshot(s, doorOpen, robot, action, acc) ==
  IF action = NoAction
    THEN [acc EXCEPT !.robots = Append(@, applyExitStatus(s.world, s.exits, robot))]
    ELSE [robots |->
            Append(acc.robots,
                   applyExitStatus(s.world, s.exits,
                     actOnRobot(s, doorOpen, robot, action,
                                acc.nextOccupied \ {positionKey(robot.x, robot.y)},
                                getForwardPosition(robot, robot.direction)))),
          nextOccupied |-> acc.nextOccupied,
          globalSignal |-> signalAfter(action, acc.globalSignal)]

resolveRobot(s, doorOpen, robot, action, acc) ==
  IF action = NoAction
    THEN [acc EXCEPT !.robots = Append(@, applyExitStatus(s.world, s.exits, robot))]
    ELSE recordRobot(acc,
                     applyExitStatus(s.world, s.exits,
                       actOnRobot(s, doorOpen, robot, action,
                                  releaseCell(robot, acc.nextOccupied),
                                  getForwardPosition(robot, robot.direction))),
                     releaseCell(robot, acc.nextOccupied),
                     signalAfter(action, acc.globalSignal))

RECURSIVE resolveRobotsFrom(_, _, _, _, _, _)
resolveRobotsFrom(s, doorOpen, robots, acts, index, acc) ==
  IF index > Len(robots) THEN acc
  ELSE resolveRobotsFrom(s, doorOpen, robots, acts, index + 1,
                         resolveRobot(s, doorOpen, robots[index], acts[index], acc))

resolveActions(s, robots, acts) ==
  resolveRobotsFrom(s, isDoorOpen(s.world, robots, s.doorUnlocked), robots, acts, 1,
                    [robots |-> <<>>,
                     nextOccupied |-> buildOccupiedPositions(robots),
                     globalSignal |-> s.globalSignal])

decideStatusLostFirst(s, savedCount, stepCount, hasActiveRobot, hasRemainingSpawns) ==
  IF stepCount >= s.maxSteps THEN "lost"
  ELSE IF savedCount >= s.requiredSaved THEN "won"
  ELSE IF ~hasActiveRobot /\ ~hasRemainingSpawns THEN "lost"
  ELSE s.status

decideStatus(s, savedCount, stepCount, hasActiveRobot, hasRemainingSpawns) ==
  IF savedCount >= s.requiredSaved THEN "won"
  ELSE IF stepCount >= s.maxSteps THEN "lost"
  ELSE IF ~hasActiveRobot /\ ~hasRemainingSpawns THEN "lost"
  ELSE s.status

latchDoorHeld(s, platePressed, world, robots) ==
  platePressed \/ isPressurePlatePressed(world, robots)

latchDoor(s, platePressed, world, robots) ==
  s.doorUnlocked \/ platePressed \/ isPressurePlatePressed(world, robots)

(***************************************************************************)
(* sim.ts stepSimulation, the running branch, one stage per operator: the  *)
(* spawn, the action resolution, the raft move, the exit marking and the   *)
(* status decision.  Each stage receives the constants the code has bound  *)
(* so far.                                                                 *)
(***************************************************************************)
tickAfterExits(s, spawned, globalSignal, raftMoveResult, raftAdjustedRobots) ==
  [s EXCEPT !.robots = raftAdjustedRobots,
            !.spawnedCount = spawned.spawnedCount,
            !.nextSpawnTick = spawned.nextSpawnTick,
            !.status =
              decideStatus(s, savedCountOf(raftAdjustedRobots), s.stepCount + 1,
                           \E i \in DOMAIN raftAdjustedRobots :
                             raftAdjustedRobots[i].alive
                               /\ ~raftAdjustedRobots[i].reachedGoal,
                           spawned.spawnedCount < s.spawner.count),
            !.stepCount = s.stepCount + 1,
            !.doorUnlocked =
              latchDoor(s, isPressurePlatePressed(s.world, spawned.robots),
                        raftMoveResult.world, raftAdjustedRobots),
            !.globalSignal = globalSignal,
            !.world = raftMoveResult.world,
            !.raftStates = raftMoveResult.raftStates]

tickAfterRafts(s, spawned, globalSignal, raftMoveResult) ==
  tickAfterExits(s, spawned, globalSignal, raftMoveResult,
                 [i \in DOMAIN raftMoveResult.robots |->
                    applyExitStatus(raftMoveResult.world, s.exits,
                                    raftMoveResult.robots[i])])

tickAfterActions(s, spawned, resolved) ==
  tickAfterRafts(s, spawned, resolved.globalSignal, moveRafts(s, resolved.robots))

tickAfterSpawn(s, acts, spawned) ==
  tickAfterActions(s, spawned, resolveActions(s, spawned.robots, acts))

advanceTick(s, acts) ==
  tickAfterSpawn(s, acts, spawnNextRobot(s, buildOccupiedPositions(s.robots)))

stepSimulationUnguarded(s, acts) == advanceTick(s, acts)

stepSimulation(s, acts) ==
  IF s.status # "running" THEN s ELSE advanceTick(s, acts)

(***************************************************************************)
(* blocks/types.ts: program trees and conditions.                          *)
(***************************************************************************)
ActionNode(action) == [type |-> "action", action |-> action]

ProgramNode(steps) == [type |-> "sequence", steps |-> steps]

RepeatNode(count, body) == [type |-> "repeat", count |-> count, body |-> body]

RepeatUntilNode(condition, body) ==
  [type |-> "repeat_until", condition |-> condition, body |-> body]

IfNode(condition, thenBranch, elseBranch) ==
  [type |-> "if", condition |-> condition,
   thenBranch |-> thenBranch, elseBranch |-> elseBranch]

Primitive(condition) == [kind |-> "primitive", condition |-> condition]

NotNode(operand) == [kind |-> "not", operand |-> operand]

(***************************************************************************)
(* blocks/vm.ts: the resumable interpreter.  A missing elseBranch and a    *)
(* missing currentNode are Null.                                           *)
(***************************************************************************)
createVm(program, maxSteps) ==
  [program |-> program,
   stack |-> << [kind |-> "sequence", node |-> program, index |-> 0] >>,
   status |-> "running",
   steps |-> 0,
   maxSteps |-> maxSteps,
   currentNode |-> Null]

isClear(ctx, direction) ==
  /\ ~isWall(ctx.world, getForwardPosition(ctx.robot, direction).x,
             getForwardPosition(ctx.robot, direction).y)
  /\ ~isHazard(ctx.world, getForwardPosition(ctx.robot, direction).x,
               getForwardPosition(ctx.robot, direction).y)
  /\ ~(isDoor(ctx.world, getForwardPosition(ctx.robot, direction).x,
              getForwardPosition(ctx.robot, direction).y) /\ ~ctx.doorOpen)

evaluatePrimitiveCondition(condition, ctx) ==
  CASE condition = "PATH_AHEAD_CLEAR" -> isClear(ctx, ctx.robot.direction)
    [] condition = "ON_GOAL" ->
         isExitTile(ctx.world, ctx.exits, ctx.robot.x, ctx.robot.y)
    [] condition = "ON_PRESSURE_PLATE" ->
         isPressurePlate(ctx.world, ctx.robot.x, ctx.robot.y)
    [] condition = "HAZARD_AHEAD" ->
         isHazard(ctx.world,
                  getForwardPosition(ctx.robot, ctx.robot.direction).x,
                  getForwardPosition(ctx.robot, ctx.robot.direction).y)
    [] condition = "RIGHT_CLEAR" -> isClear(ctx, turnRight(ctx.robot.direction))
    [] condition = "LEFT_CLEAR" -> isClear(ctx, turnLeft(ctx.robot.direction))
    [] condition = "GLOBAL_SIGNAL_ON" -> ctx.globalSignal
    [] OTHER -> FALSE

RECURSIVE evaluateCondition(_, _)
evaluateCondition(condition, ctx) ==
  CASE condition.kind = "not" -> ~evaluateCondition(condition.operand, ctx)
    [] condition.kind = "and" ->
         evaluateCondition(condition.left, ctx)
           /\ evaluateCondition(condition.right, ctx)
    [] condition.kind = "or" ->
         evaluateCondition(condition.left, ctx)
           \/ evaluateCondition(condition.right, ctx)
    [] OTHER -> evaluatePrimitiveCondition(condition.condition, ctx)

atStepLimitLate(vmState) == vmState.steps > vmState.maxSteps

atStepLimit(vmState) == vmState.steps >= vmState.maxSteps

nextStateUncounted(vmState, frames, node) ==
  [vmState EXCEPT !.stack = frames, !.currentNode = node]

nextState(vmState, frames, node) ==
  [vmState EXCEPT !.stack = frames,
                  !.steps = vmState.steps + 1,
                  !.currentNode = node]

cloneStack(frames) == frames

popFrame(frames) == SubSeq(frames, 1, Len(frames) - 1)

setFrame(frames, frame) == [frames EXCEPT ![Len(frames)] = frame]

continueWith(frames) == [kind |-> "continue", stack |-> frames]

(***************************************************************************)
(* stepVm, lines 399-440: the node at the frame's index, after the index   *)
(* has been advanced.                                                      *)
(***************************************************************************)
repeatFrameOneShort(node) ==
  [kind |-> "repeat", node |-> node.body, index |-> 0,
   remaining |-> node.count - 1]

repeatFrame(node) ==
  [kind |-> "repeat", node |-> node.body, index |-> 0,
   remaining |-> node.count]

visitNode(frames, node, ctx) ==
  CASE node.type = "action" ->
         [kind |-> "action", stack |-> frames, node |-> node]
    [] node.type = "repeat" ->
         IF node.count > 0
           THEN continueWith(Append(frames, repeatFrame(node)))
           ELSE continueWith(frames)
    [] node.type = "repeat_until" ->
         continueWith(Append(frames,
           [kind |-> "repeat_until", node |-> node, index |-> 0]))
    [] node.type = "if" ->
         IF evaluateCondition(node.condition, ctx)
           THEN IF Len(node.thenBranch.steps) > 0
                  THEN continueWith(Append(frames,
                         [kind |-> "sequence", node |-> node.thenBranch,
                          index |-> 0]))
                  ELSE continueWith(frames)
           ELSE IF node.elseBranch # Null /\ Len(node.elseBranch.steps) > 0
                  THEN continueWith(Append(frames,
                         [kind |-> "sequence", node |-> node.elseBranch,
                          index |-> 0]))
                  ELSE continueWith(frames)
    [] OTHER -> continueWith(frames)

(***************************************************************************)
(* stepVm, lines 357-441: one iteration of the while loop on a non-empty   *)
(* frame stack.  loopIterationNoEntryCheck is the loop without the check   *)
(* of lines 362-365 before the first body node.                            *)
(***************************************************************************)
loopIterationNoEntryCheck(frames, frame, sequenceNode, ctx) ==
  IF frame.kind = "repeat_until" /\ frame.index >= Len(sequenceNode.steps)
    THEN IF evaluateCondition(frame.node.condition, ctx)
           THEN continueWith(popFrame(frames))
           ELSE continueWith(setFrame(frames, [frame EXCEPT !.index = 0]))
  ELSE IF frame.kind = "repeat" /\ frame.remaining <= 0
    THEN continueWith(popFrame(frames))
  ELSE IF frame.kind = "repeat" /\ frame.index >= Len(sequenceNode.steps)
    THEN IF frame.remaining - 1 <= 0
           THEN continueWith(popFrame(frames))
           ELSE continueWith(setFrame(frames,
                  [frame EXCEPT !.remaining = @ - 1, !.index = 0]))
  ELSE IF frame.index >= Len(sequenceNode.steps)
    THEN continueWith(popFrame(frames))
  ELSE visitNode(setFrame(frames, [frame EXCEPT !.index = @ + 1]),
                 sequenceNode.steps[frame.index + 1], ctx)

loopIteration(frames, frame, sequenceNode, ctx) ==
  IF frame.kind = "repeat_until" /\ frame.index = 0
       /\ evaluateCondition(frame.node.condition, ctx)
    THEN continueWith(popFrame(frames))
  ELSE IF frame.kind = "repeat_until" /\ frame.index >= Len(sequenceNode.steps)
    THEN IF evaluateCondition(frame.node.condition, ctx)
           THEN continueWith(popFrame(frames))
           ELSE continueWith(setFrame(frames, [frame EXCEPT !.index = 0]))
  ELSE IF frame.kind = "repeat" /\ frame.remaining <= 0
    THEN continueWith(popFrame(frames))
  ELSE IF frame.kind = "repeat" /\ frame.index >= Len(sequenceNode.steps)
    THEN IF frame.remaining - 1 <= 0
           THEN continueWith(popFrame(frames))
           ELSE continueWith(setFrame(frames,
                  [frame EXCEPT !.remaining = @ - 1, !.index = 0]))
  ELSE IF frame.index >= Len(sequenceNode.steps)
    THEN continueWith(popFrame(frames))
  ELSE visitNode(setFrame(frames, [frame EXCEPT !.index = @ + 1]),
                 sequenceNode.steps[frame.index + 1], ctx)

vmIteration(frames, ctx) ==
  loopIteration(frames, frames[Len(frames)],
                IF frames[Len(frames)].kind = "repeat_until"
                  THEN frames[Len(frames)].node.body
                  ELSE frames[Len(frames)].node,
                ctx)

(***************************************************************************)
(* stepVm, object identity.  The frames of the VmState passed in are the   *)
(* caller's objects 1..Len(stack).  owners[k] names the caller's object    *)
(* that the k-th frame of the working stack is, or 0 when it is an object  *)
(* of this call: cloneStack (lines 335-338) spreads every frame into a new *)
(* object, and a pushed frame is new.  A loop iteration writes the frame   *)
(* objects whose fields it changes in place (frame.index, frame.remaining);*)
(* view is the caller's frames as those writes leave them.                 *)
(***************************************************************************)
cloneStackShared(frames) == [k \in DOMAIN frames |-> k]

cloneStackOwners(frames) == [k \in DOMAIN frames |-> 0]

keptOwners(owners, frames) ==
  [k \in DOMAIN frames |-> IF k <= Len(owners) THEN owners[k] ELSE 0]

writtenFrames(frames, owners, view, after) ==
  [a \in DOMAIN view |->
     IF \E k \in DOMAIN frames :
          k <= Len(after) /\ owners[k] = a /\ after[k] # frames[k]
       THEN after[CHOOSE k \in DOMAIN frames :
                    k <= Len(after) /\ owners[k] = a /\ after[k] # frames[k]]
       ELSE view[a]]

RECURSIVE callerView(_, _, _, _)
callerViewNext(iteration, owners, view, ctx) ==
  IF iteration.kind = "action"
    THEN view
    ELSE callerView(iteration.stack, owners, view, ctx)

callerViewAfter(frames, owners, view, ctx, iteration) ==
  callerViewNext(iteration, keptOwners(owners, iteration.stack),
                 writtenFrames(frames, owners, view, iteration.stack), ctx)

callerView(frames, owners, view, ctx) ==
  IF Len(frames) = 0
    THEN view
    ELSE callerViewAfter(frames, owners, view, ctx, vmIteration(frames, ctx))

stackAfterStepVm(vmState, ctx) ==
  IF vmState.status # "running" \/ atStepLimit(vmState)
    THEN vmState.stack
    ELSE callerView(cloneStack(vmState.stack), cloneStackOwners(vmState.stack),
                    vmState.stack, ctx)

(***************************************************************************)
(* Levels.  Cells outside a grid are walls (getTile).  A fixture is a      *)
(* level definition with its spawner count and interval and its quota.     *)
(***************************************************************************)
Position(x, y) == [x |-> x, y |-> y]

OpenLevel ==
  [grid |-> << <<Wall, Wall, Wall, Wall, Wall>>,
               <<Wall, Empty, Empty, Empty, Wall>>,
               <<Wall, Wall, Wall, Wall, Wall>> >>,
   spawner |-> [x |-> 1, y |-> 1, dir |-> 1],
   exits |-> <<>>]

GoalLevel ==
  [grid |-> << <<Wall, Wall, Wall, Wall>>,
               <<Wall, Empty, Goal, Wall>>,
               <<Wall, Hazard, Empty, Wall>>,
               <<Wall, Wall, Wall, Wall>> >>,
   spawner |-> [x |-> 1, y |-> 1, dir |-> 1],
   exits |-> <<>>]

DoorLevel ==
  [grid |-> << <<Empty, PressurePlate, Empty, Door>>,
               <<Door, Wall, Wall, Wall>> >>,
   spawner |-> [x |-> 0, y |-> 0, dir |-> 1],
   exits |-> <<>>]

MixedLevel ==
  [grid |-> << <<Empty, PressurePlate, Goal>>,
               <<Hazard, Door, Wall>> >>,
   spawner |-> [x |-> 0, y |-> 0, dir |-> 1],
   exits |-> <<>>]

PlateExitLevel ==
  [grid |-> << <<PressurePlate, Door, Empty>> >>,
   spawner |-> [x |-> 0, y |-> 0, dir |-> 1],
   exits |-> <<Position(0, 0)>>]

RaftLevel ==
  [grid |-> << <<Empty, Raft, Water, Jetty, Goal>> >>,
   spawner |-> [x |-> 0, y |-> 0, dir |-> 1],
   exits |-> <<>>]

StackLevel ==
  [grid |-> << <<Empty, Empty>>,
               <<Empty, Wall>> >>,
   spawner |-> [x |-> 0, y |-> 0, dir |-> 1],
   exits |-> <<>>]

HazardLevel ==
  [grid |-> << <<Hazard, Hazard>> >>,
   spawner |-> [x |-> 0, y |-> 0, dir |-> 1],
   exits |-> <<>>]

HazardExitLevel ==
  [grid |-> << <<Empty, Hazard, Water>>,
               <<Empty, Empty, Empty>> >>,
   spawner |-> [x |-> 0, y |-> 0, dir |-> 1],
   exits |-> <<Position(1, 0), Position(2, 0)>>]

TwoRaftLevel ==
  [grid |-> << <<Empty, Raft, Water, Jetty, Raft, Empty>> >>,
   spawner |-> [x |-> 0, y |-> 0, dir |-> 1],
   exits |-> <<>>]

Fixtures(level, counts, intervals, quotas, limits) ==
  {[world |-> createWorld(level.grid),
    spawner |-> [x |-> level.spawner.x, y |-> level.spawner.y,
                 dir |-> level.spawner.dir,
                 count |-> count, intervalTicks |-> intervalTicks],
    exits |-> level.exits,
    maxSteps |-> maxSteps,
    requiredSaved |-> requiredSaved] :
     count \in counts, intervalTicks \in intervals,
     requiredSaved \in quotas, maxSteps \in limits}

Limits == (MaxTicks - 1)..MaxTicks

OpenConfigs == Fixtures(OpenLevel, 0..2, 0..2, {1}, Limits)

GoalConfigs ==
  Fixtures(GoalLevel, 1..2, 0..1, {1, 2}, Limits)
    \cup Fixtures(MixedLevel, {2}, 0..1, {2}, Limits)

DoorConfigs ==
  Fixtures(DoorLevel, 1..2, 0..1, {1}, Limits)
    \cup Fixtures(PlateExitLevel, {2}, {1}, {2}, Limits)

RaftConfigs == Fixtures(RaftLevel, 1..2, 0..1, {1, 2}, Limits)

HazardConfigs == Fixtures(HazardLevel, {1}, {0}, {1}, Limits)

HazardExitConfigs == Fixtures(HazardExitLevel, 1..2, 0..1, {1, 2}, Limits)

TwoRaftConfigs == Fixtures(TwoRaftLevel, {2}, 1..2, {2}, {MaxTicks + 1})

SpawnConfigs == Fixtures(OpenLevel, {3}, 1..2, {3}, {MaxTicks + 1})

StackConfigs == Fixtures(StackLevel, {3}, {0}, {1}, {MaxTicks})

(***************************************************************************)
(* The state machine: createSimulation, then stepSimulation calls.         *)
(***************************************************************************)
ActionArrays(s) ==
  [1..Len(spawnNextRobot(s, buildOccupiedPositions(s.robots)).robots) ->
     RobotAction \cup {NoAction}]

InitOf(configs) ==
  /\ \E config \in configs : state = createSimulation(config)
  /\ everPressed = isPressurePlatePressed(state.world, state.robots)

Tick ==
  \E acts \in ActionArrays(state) :
    /\ state' = stepSimulation(state, acts)
    /\ everPressed' =
         (everPressed \/ isPressurePlatePressed(state'.world, state'.robots))

VmUnused ==
  /\ vm = <<>>
  /\ pc = "unused"
  /\ stack = <<>>
  /\ context = <<>>
  /\ result = NoAction
  /\ emitted = <<>>
  /\ spin = 0

SolverUnused ==
  /\ evaluation = <<>>
  /\ search = <<>>
  /\ worker = <<>>
  /\ app = <<>>

Next == Tick /\ UNCHANGED <<vmVars, solverVars, app>>

Init ==
  /\ InitOf(OpenConfigs \cup GoalConfigs \cup DoorConfigs \cup RaftConfigs
              \cup HazardConfigs)
  /\ VmUnused
  /\ SolverUnused

Spec == Init /\ [][Next]_vars

InitStack == InitOf(StackConfigs) /\ VmUnused /\ SolverUnused

InitTwoRafts == InitOf(TwoRaftConfigs) /\ VmUnused /\ SolverUnused

SpecTwoRafts == InitTwoRafts /\ [][Next]_vars

InitSpawn == InitOf(SpawnConfigs) /\ VmUnused /\ SolverUnused

SpecSpawn == InitSpawn /\ [][Next]_vars

InitHazardExit == InitOf(HazardExitConfigs) /\ VmUnused /\ SolverUnused

SpecHazardExit == InitHazardExit /\ [][Next]_vars

SpecStack == InitStack /\ [][Next]_vars

(***************************************************************************)
(* The interpreter as a state machine.  VmCall is the entry of stepVm up   *)
(* to the clone of the frame stack; VmLoop is one iteration of its while   *)
(* loop, or its exit on an empty stack.  pc is "idle" between calls,       *)
(* result is the action the last call returned, emitted lists the actions  *)
(* returned so far and spin is the parity of the number of loop iterations *)
(* the call in progress has made.                                          *)
(***************************************************************************)
OnGoal == Primitive("ON_GOAL")

SignalOn == Primitive("GLOBAL_SIGNAL_ON")

AheadClear == Primitive("PATH_AHEAD_CLEAR")

Move == ActionNode("MOVE_FORWARD")

Left == ActionNode("TURN_LEFT")

Wait == ActionNode("WAIT")

NoSteps == ProgramNode(<<>>)

StraightPrograms ==
  {ProgramNode(<<Move, Left>>),
   ProgramNode(<<IfNode(AheadClear, ProgramNode(<<Move>>), ProgramNode(<<Left>>)),
                 Wait>>),
   ProgramNode(<<IfNode(NotNode(SignalOn), ProgramNode(<<Move>>), Null), Wait>>)}

RepeatPrograms ==
  {ProgramNode(<<RepeatNode(count, body), Wait>>) :
     count \in 0..2, body \in {NoSteps, ProgramNode(<<Move>>),
                               ProgramNode(<<Move, Left>>)}}

EndlessPrograms ==
  {ProgramNode(<<RepeatUntilNode(OnGoal, ProgramNode(<<Move>>))>>),
   ProgramNode(<<RepeatUntilNode(OnGoal,
                   ProgramNode(<<IfNode(SignalOn, ProgramNode(<<Left>>), NoSteps),
                                 RepeatNode(2, ProgramNode(<<Move>>))>>))>>)}

UntilPrograms ==
  {ProgramNode(<<RepeatUntilNode(SignalOn, ProgramNode(<<Move, Left>>)), Wait>>)}

IdlePrograms ==
  {ProgramNode(<<RepeatUntilNode(SignalOn, NoSteps), Wait>>),
   ProgramNode(<<RepeatUntilNode(SignalOn,
                   ProgramNode(<<IfNode(SignalOn, NoSteps, Null),
                                 RepeatNode(0, ProgramNode(<<Move>>))>>)),
                 Wait>>)}

VmContexts ==
  {[world |-> createWorld(OpenLevel.grid),
    robot |-> createSpawnedRobot([x |-> x, y |-> 1, dir |-> 1], 0),
    exits |-> <<>>,
    globalSignal |-> globalSignal,
    doorOpen |-> FALSE] : x \in {1, 3}, globalSignal \in BOOLEAN}

InitVmOf(programs) ==
  /\ \E program \in programs, maxSteps \in 0..MaxVmSteps :
       vm = createVm(program, maxSteps)
  /\ pc = "idle"
  /\ stack = <<>>
  /\ context \in VmContexts
  /\ result = NoAction
  /\ emitted = <<>>
  /\ spin = 0
  /\ state = <<>>
  /\ everPressed = FALSE
  /\ SolverUnused

VmCall ==
  /\ pc = "idle"
  /\ \E ctx \in VmContexts :
       /\ context' = ctx
       /\ result' = NoAction
       /\ IF vm.status # "running"
            THEN UNCHANGED <<vm, pc, stack>>
          ELSE IF atStepLimit(vm)
            THEN /\ vm' = [vm EXCEPT !.status = "step_limit", !.currentNode = Null]
                 /\ UNCHANGED <<pc, stack>>
          ELSE /\ stack' = cloneStack(vm.stack)
               /\ pc' = "loop"
               /\ UNCHANGED vm
  /\ UNCHANGED <<emitted, spin, simVars, solverVars, app>>

VmReturn(iteration) ==
  IF iteration.kind = "action"
    THEN /\ vm' = nextState(vm, iteration.stack, iteration.node)
         /\ result' = iteration.node.action
         /\ emitted' = Append(emitted, iteration.node.action)
         /\ pc' = "idle"
         /\ stack' = <<>>
         /\ spin' = 0
    ELSE /\ stack' = iteration.stack
         /\ spin' = 1 - spin
         /\ UNCHANGED <<vm, result, emitted, pc>>

VmLoop ==
  /\ pc = "loop"
  /\ IF Len(stack) = 0
       THEN /\ vm' = [vm EXCEPT !.stack = stack,
                                !.status = "done",
                                !.currentNode = Null]
            /\ pc' = "idle"
            /\ spin' = 0
            /\ UNCHANGED <<stack, result, emitted>>
       ELSE VmReturn(vmIteration(stack, context))
  /\ UNCHANGED <<context, simVars, solverVars, app>>

NextVm == VmCall \/ VmLoop

InitVm ==
  InitVmOf(StraightPrograms \cup RepeatPrograms \cup EndlessPrograms
             \cup UntilPrograms)

SpecVm == InitVm /\ [][NextVm]_vars

InitVmIdle == InitVmOf(IdlePrograms)

SpecVmIdle == InitVmIdle /\ [][NextVm]_vars /\ WF_vars(VmLoop)

(***************************************************************************)
(* solver/evaluate: one program run on one level.  evaluation holds the    *)
(* locals of one call of evaluate; EvalIteration is one iteration of its   *)
(* run loop and EvalReturn its return.  vmStates is kept in robot order    *)
(* (robot ids are distinct), absent values are Null and present optional   *)
(* values Some(value), and NegativeInfinity stands below every score       *)
(* computeScore returns.  stepVm is the interpreter call of VmCall and     *)
(* VmLoop taken as a whole.                                                *)
(***************************************************************************)
NegativeInfinity == -1

DEFAULT_SAMPLE_EVERY == 5

orElse(optional, fallback) == IF optional = Null THEN fallback ELSE optional[1]

parseDirection(direction) == ((direction % 4) + 4) % 4

fallbackSpawner(level) ==
  [x |-> orElse(level.start, [x |-> 1, y |-> 1, dir |-> 1]).x,
   y |-> orElse(level.start, [x |-> 1, y |-> 1, dir |-> 1]).y,
   dir |-> orElse(level.start, [x |-> 1, y |-> 1, dir |-> 1]).dir,
   count |-> 1,
   intervalTicks |-> 0]

createSimulationForLevel(level, options) ==
  createSimulation(
    [world |-> createWorld(level.grid),
     spawner |-> [orElse(level.spawner, fallbackSpawner(level)) EXCEPT
                    !.dir = parseDirection(@)],
     exits |-> IF level.exits # Null THEN level.exits[1]
               ELSE IF level.goal # Null THEN <<level.goal[1]>>
               ELSE <<>>,
     maxSteps |-> orElse(level.maxTicks, orElse(options.maxTicks, 200)),
     requiredSaved |-> orElse(level.requiredSaved, 1)])

getRobotStatus(robot) ==
  IF robot.reachedGoal THEN "saved"
  ELSE IF ~robot.alive THEN "dead"
  ELSE "alive"

snapshotFrame(robots) ==
  [i \in DOMAIN robots |->
     [id |-> robots[i].id, x |-> robots[i].x, y |-> robots[i].y,
      dir |-> robots[i].direction, status |-> getRobotStatus(robots[i])]]

updateEvents(events, robots, levelWorld, doorOpen, savedCount) ==
  [doorOpened |-> events.doorOpened \/ doorOpen,
   pressurePlatePressed |->
     events.pressurePlatePressed
       \/ \E i \in DOMAIN robots :
            robots[i].alive /\ isPressurePlate(levelWorld, robots[i].x, robots[i].y),
   raftUsed |->
     events.raftUsed
       \/ \E i \in DOMAIN robots :
            robots[i].alive /\ isRaft(levelWorld, robots[i].x, robots[i].y),
   waterTouched |->
     events.waterTouched
       \/ \E i \in DOMAIN robots :
            robots[i].alive /\ isWater(levelWorld, robots[i].x, robots[i].y),
   anySaved |-> events.anySaved \/ savedCount > 0]

abs(n) == IF n < 0 THEN -n ELSE n

exitDistances(robots, exits) ==
  {abs(exits[e].x - robots[i].x) + abs(exits[e].y - robots[i].y) :
     i \in {j \in DOMAIN robots : robots[j].alive}, e \in DOMAIN exits}

minimum(numbers) == CHOOSE n \in numbers : \A other \in numbers : n <= other

distanceBonus(distances) ==
  IF distances = {} THEN 0
  ELSE IF 100 - minimum(distances) > 0 THEN 100 - minimum(distances)
  ELSE 0

computeScore(robots, exits, savedCount, events, status) ==
  savedCount * 1000
    + (IF events.doorOpened THEN 50 ELSE 0)
    + (IF events.pressurePlatePressed THEN 25 ELSE 0)
    + (IF events.raftUsed THEN 50 ELSE 0)
    + (IF events.waterTouched THEN 10 ELSE 0)
    + (IF status = "won" THEN 5000 ELSE 0)
    + distanceBonus(exitDistances(robots, exits))

(***************************************************************************)
(* translate.ts: the solver's program tree rebuilt as a block program      *)
(* tree (block ids are not modelled).                                      *)
(***************************************************************************)
RECURSIVE toProgramNode(_)
toAstNode(node) ==
  CASE node.type = "action" -> ActionNode(node.action)
    [] node.type = "if" ->
         IfNode(node.condition, toProgramNode(node.thenBranch),
                IF node.elseBranch # Null THEN toProgramNode(node.elseBranch)
                ELSE Null)
    [] node.type = "repeat" -> RepeatNode(node.count, toProgramNode(node.body))
    [] node.type = "repeat_until" ->
         RepeatUntilNode(node.condition, toProgramNode(node.body))

toProgramNode(program) ==
  ProgramNode([i \in DOMAIN program.steps |-> toAstNode(program.steps[i])])

(***************************************************************************)
(* stepVm as one call: the guards of lines 341-353, then the while loop    *)
(* until a frame yields an action or the stack is empty.                   *)
(***************************************************************************)
RECURSIVE stepVmLoop(_, _, _)
stepVmNext(vmState, iteration, ctx) ==
  IF iteration.kind = "action"
    THEN [state |-> nextState(vmState, iteration.stack, iteration.node),
          action |-> iteration.node.action]
    ELSE stepVmLoop(vmState, iteration.stack, ctx)

stepVmLoop(vmState, frames, ctx) ==
  IF Len(frames) = 0
    THEN [state |-> [vmState EXCEPT !.stack = frames, !.status = "done",
                                    !.currentNode = Null],
          action |-> NoAction]
    ELSE stepVmNext(vmState, vmIteration(frames, ctx), ctx)

stepVmResuming(vmState, ctx) ==
  IF vmState.status = "running" /\ atStepLimit(vmState)
    THEN [state |-> [vmState EXCEPT !.status = "step_limit",
                                    !.currentNode = Null],
          action |-> NoAction]
  ELSE stepVmLoop(vmState, cloneStack(vmState.stack), ctx)

stepVm(vmState, ctx) ==
  IF vmState.status # "running"
    THEN [state |-> vmState, action |-> NoAction]
  ELSE IF atStepLimit(vmState)
    THEN [state |-> [vmState EXCEPT !.status = "step_limit",
                                    !.currentNode = Null],
          action |-> NoAction]
  ELSE stepVmLoop(vmState, cloneStack(vmState.stack), ctx)

(***************************************************************************)
(* evaluate, lines 160-282.  savedCount is the simulation's count of saved *)
(* robots that evaluate reads at lines 248 and 254.                        *)
(***************************************************************************)
savedCount(simulation) == savedCountOf(simulation.robots)

startEvaluation(program, level, options) ==
  [program |-> toProgramNode(program),
   options |-> options,
   simulation |-> createSimulationForLevel(level, options),
   vmStates |-> <<>>,
   events |-> [doorOpened |-> FALSE, pressurePlatePressed |-> FALSE,
               raftUsed |-> FALSE, waterTouched |-> FALSE, anySaved |-> FALSE],
   bestScore |-> NegativeInfinity,
   bestRobots |-> createSimulationForLevel(level, options).robots,
   tickIndex |-> 0,
   scored |-> <<>>,
   traceLite |-> <<snapshotFrame(createSimulationForLevel(level, options).robots)>>,
   returned |-> Null]

robotVm(run, index) ==
  IF index <= Len(run.vmStates)
    THEN run.vmStates[index]
    ELSE createVm(run.program,
                  orElse(run.options.maxVmSteps, run.simulation.maxSteps))

vmContextOf(simulation, robot) ==
  [world |-> simulation.world,
   robot |-> robot,
   exits |-> simulation.exits,
   doorOpen |-> isDoorOpen(simulation.world, simulation.robots,
                           simulation.doorUnlocked),
   occupiedPositions |-> buildOccupiedPositions(simulation.robots),
   globalSignal |-> FALSE]

steppedResult(vmResult) ==
  [state |-> vmResult.state, action |-> vmResult.action, stepped |-> TRUE]

stepRobotVm(simulation, robot, vmState) ==
  IF ~robot.alive \/ robot.reachedGoal \/ vmState.status # "running"
    THEN [state |-> vmState, action |-> NoAction, stepped |-> FALSE]
    ELSE steppedResult(stepVm(vmState, vmContextOf(simulation, robot)))

stepRobotVms(run) ==
  [index \in DOMAIN run.simulation.robots |->
     stepRobotVm(run.simulation, run.simulation.robots[index],
                 robotVm(run, index))]

hasRemainingSpawns(simulation) ==
  simulation.spawnedCount < simulation.spawner.count

paddedActions(simulation, results) ==
  [index \in 1..Len(spawnNextRobot(simulation,
                      buildOccupiedPositions(simulation.robots)).robots) |->
     IF index <= Len(results) THEN results[index].action ELSE NoAction]

loseAtStepLimit(simulation, results) ==
  IF (\E index \in DOMAIN results :
        results[index].stepped /\ results[index].state.status = "step_limit")
       /\ simulation.status = "running"
    THEN [simulation EXCEPT !.status = "lost"]
    ELSE simulation

advanceOrLose(simulation, results) ==
  IF (\E index \in DOMAIN results : results[index].action # NoAction)
       \/ (Len(simulation.robots) = 0 /\ hasRemainingSpawns(simulation))
    THEN stepSimulation(simulation, paddedActions(simulation, results))
  ELSE IF ~hasRemainingSpawns(simulation)
    THEN [simulation EXCEPT !.status = "lost"]
  ELSE simulation

recordIteration(run, results, simulation, events, score) ==
  [run EXCEPT
     !.simulation = simulation,
     !.vmStates = [index \in DOMAIN results |-> results[index].state],
     !.events = events,
     !.bestScore = IF score > @ THEN score ELSE @,
     !.bestRobots = IF score > run.bestScore THEN simulation.robots ELSE @,
     !.tickIndex = @ + 1,
     !.scored = Append(@, [score |-> score, robots |-> simulation.robots,
                           events |-> events]),
     !.traceLite =
       IF (run.tickIndex + 1) % orElse(run.options.sampleEvery,
                                       DEFAULT_SAMPLE_EVERY) = 0
         THEN Append(@, snapshotFrame(simulation.robots))
         ELSE @]

iterationAfterEvents(run, results, simulation, events) ==
  recordIteration(run, results, simulation, events,
                  computeScore(simulation.robots, simulation.exits,
                               savedCount(simulation), events,
                               simulation.status))

iterationAfterStep(run, results, simulation) ==
  iterationAfterEvents(run, results, simulation,
    updateEvents(run.events, simulation.robots, simulation.world,
                 isDoorOpen(simulation.world, simulation.robots,
                            simulation.doorUnlocked),
                 savedCount(simulation)))

iterationAfterVms(run, results) ==
  iterationAfterStep(run, results,
    loseAtStepLimit(advanceOrLose(run.simulation, results), results))

evalIteration(run) == iterationAfterVms(run, stepRobotVms(run))

evalResult(run) ==
  [solved |-> run.simulation.status = "won",
   score |-> run.bestScore,
   ticks |-> run.simulation.stepCount,
   finalRobots |-> run.simulation.robots,
   bestRobots |-> run.bestRobots,
   events |-> run.events,
   traceLite |->
     IF run.tickIndex % orElse(run.options.sampleEvery,
                               DEFAULT_SAMPLE_EVERY) # 0
       THEN Append(run.traceLite, snapshotFrame(run.simulation.robots))
       ELSE run.traceLite]

(***************************************************************************)
(* Solver levels, programs and options of the evaluator runs.              *)
(***************************************************************************)
MaxIterations == MaxTicks + 2

SolverLevel(level, count, intervalTicks, requiredSaved, maxTicks) ==
  [grid |-> level.grid,
   spawner |-> Some([x |-> level.spawner.x, y |-> level.spawner.y,
                     dir |-> level.spawner.dir, count |-> count,
                     intervalTicks |-> intervalTicks]),
   start |-> Null,
   exits |-> IF level.exits = <<>> THEN Null ELSE Some(level.exits),
   goal |-> Null,
   requiredSaved |-> Some(requiredSaved),
   maxTicks |-> maxTicks]

HomeLevel ==
  [grid |-> OpenLevel.grid,
   spawner |-> OpenLevel.spawner,
   exits |-> <<Position(1, 1)>>]

FordLevel ==
  [grid |-> << <<Wall, Wall, Wall, Wall, Wall>>,
               <<Wall, Empty, Water, Goal, Wall>>,
               <<Wall, Wall, Wall, Wall, Wall>> >>,
   spawner |-> OpenLevel.spawner,
   exits |-> <<>>]

SolverLevels ==
  {SolverLevel(level, count, intervalTicks, 1, Some(maxTicks)) :
     level \in {OpenLevel, GoalLevel, HomeLevel, FordLevel}, count \in 1..2, intervalTicks \in 0..2,
     maxTicks \in Limits}

SolverPrograms ==
  {ProgramNode(steps) :
     steps \in {<<>>, <<Move>>, <<Wait>>, <<Move, Move>>, <<Wait, Move>>,
                <<Left, Move>>}}

EvalOptions ==
  {[maxTicks |-> Null, maxVmSteps |-> maxVmSteps, sampleEvery |-> sampleEvery] :
     maxVmSteps \in {Null, Some(1)}, sampleEvery \in {Null, Some(2)}}

InitEval ==
  /\ \E program \in SolverPrograms, level \in SolverLevels, options \in EvalOptions :
       evaluation = startEvaluation(program, level, options)
  /\ search = <<>>
  /\ worker = <<>>
  /\ app = <<>>
  /\ VmUnused
  /\ state = <<>>
  /\ everPressed = FALSE

EvalIteration ==
  /\ evaluation.returned = Null
  /\ evaluation.simulation.status = "running"
  /\ evaluation.tickIndex < MaxIterations
  /\ evaluation' = evalIteration(evaluation)
  /\ UNCHANGED <<simVars, vmVars, app, search, worker>>

EvalReturn ==
  /\ evaluation.returned = Null
  /\ evaluation.simulation.status # "running"
  /\ evaluation' = [evaluation EXCEPT !.returned = Some(evalResult(evaluation))]
  /\ UNCHANGED <<simVars, vmVars, app, search, worker>>

NextEval == EvalIteration \/ EvalReturn

SpecEval == InitEval /\ [][NextEval]_vars

(***************************************************************************)
(* solver/search.ts, runSolverSearch (lines 62-180).  search holds its     *)
(* locals and pc its position: "initial" before the empty program is       *)
(* evaluated, "depth" at the head of the depth loop, "candidate" at the    *)
(* head of the loop over the beam, "expansion" at the head of the loop     *)
(* over a candidate's expansions, "returned" after the return.  timeUp     *)
(* says that a read of the clock has found maxTimeMs elapsed; every step   *)
(* reads the clock once.  The numbers of the search options are given in   *)
(* halves (Some(3) is 1.5), so that clampPositive's Math.floor has         *)
(* fractions to round.  onProgress says whether a callback was passed and  *)
(* reports lists the payloads it was called with (without the clock's      *)
(* elapsedMs); evaluated lists the candidates passed to evaluate, in       *)
(* order.                                                                  *)
(***************************************************************************)
RECURSIVE evaluateLoop(_)
evaluateLoop(run) ==
  IF run.simulation.status # "running"
    THEN run
    ELSE evaluateLoop(evalIteration(run))

evaluate(program, level, options) ==
  evalResult(evaluateLoop(startEvaluation(program, level, options)))

clampPositive(value, fallback) ==
  IF value = Null THEN fallback
  ELSE IF value[1] <= 0 THEN fallback
  ELSE value[1] \div 2

cloneProgram(program) == ProgramNode(program.steps)

appendAction(program, action) ==
  ProgramNode(Append(program.steps, ActionNode(action)))

expandProgram(program, options) ==
  IF Len(options.actions) = 0
    THEN <<cloneProgram(program)>>
    ELSE [i \in DOMAIN options.actions |-> appendAction(program, options.actions[i])]

insertByScoreUnstable(sorted, entry) ==
  SubSeq(sorted, 1,
         Cardinality({i \in DOMAIN sorted :
                        sorted[i].eval.score > entry.eval.score}))
    \o <<entry>>
    \o SubSeq(sorted,
              Cardinality({i \in DOMAIN sorted :
                             sorted[i].eval.score > entry.eval.score}) + 1,
              Len(sorted))

insertByScore(sorted, entry) ==
  SubSeq(sorted, 1,
         Cardinality({i \in DOMAIN sorted :
                        sorted[i].eval.score >= entry.eval.score}))
    \o <<entry>>
    \o SubSeq(sorted,
              Cardinality({i \in DOMAIN sorted :
                             sorted[i].eval.score >= entry.eval.score}) + 1,
              Len(sorted))

RECURSIVE sortByScore(_)
sortByScore(entries) ==
  IF Len(entries) = 0
    THEN entries
    ELSE insertByScore(sortByScore(SubSeq(entries, 1, Len(entries) - 1)),
                       entries[Len(entries)])

slice(entries, count) ==
  SubSeq(entries, 1, IF count < Len(entries) THEN count ELSE Len(entries))

createSearch(level, options, evalOptions, onProgress) ==
  [level |-> level,
   options |-> options,
   evalOptions |-> evalOptions,
   onProgress |-> onProgress,
   reports |-> <<>>,
   evaluated |-> <<>>,
   maxAttempts |-> clampPositive(options.maxAttempts, 200),
   maxDepth |-> clampPositive(options.maxDepth, 25),
   beamWidth |-> clampPositive(options.beamWidth, 20),
   progressEvery |-> clampPositive(options.progressEvery, 25),
   bestProgram |-> Null,
   bestEval |-> Null,
   attempts |-> 0,
   solved |-> FALSE,
   lastProgressAttempt |-> 0,
   frontier |-> <<>>,
   depth |-> 0,
   nextLayer |-> <<>>,
   candidates |-> <<>>,
   candidateIndex |-> 0,
   expansions |-> <<>>,
   expansionIndex |-> 0,
   timeUp |-> FALSE,
   pc |-> "initial"]

shouldContinueInclusive(s) == s.attempts <= s.maxAttempts /\ ~s.timeUp

shouldContinue(s) == s.attempts < s.maxAttempts /\ ~s.timeUp

betterThanBestReversed(outcome, bestEval) ==
  IF bestEval = Null THEN TRUE ELSE outcome.score < bestEval[1].score

betterThanBest(outcome, bestEval) ==
  IF bestEval = Null THEN TRUE ELSE outcome.score > bestEval[1].score

progressPayload(s) ==
  [attemptCount |-> s.attempts,
   bestScore |-> IF s.bestEval = Null THEN NegativeInfinity
                 ELSE s.bestEval[1].score,
   bestProgram |-> s.bestProgram,
   bestTrace |-> IF s.bestEval = Null THEN Null
                 ELSE Some(s.bestEval[1].traceLite)]

callOnProgress(s) ==
  IF s.onProgress
    THEN [s EXCEPT !.reports = Append(@, progressPayload(s))]
    ELSE s

pushProgressCounted(s) ==
  IF s.attempts - s.lastProgressAttempt < s.progressEvery
    THEN s
    ELSE callOnProgress([s EXCEPT !.lastProgressAttempt = s.attempts,
                                  !.attempts = @ + 1])

pushProgress(s) ==
  IF s.attempts - s.lastProgressAttempt < s.progressEvery
    THEN s
    ELSE callOnProgress([s EXCEPT !.lastProgressAttempt = s.attempts])

recordBest(s, program, outcome) ==
  [s EXCEPT
     !.attempts = @ + 1,
     !.evaluated = Append(@, [program |-> program, eval |-> outcome]),
     !.bestEval = IF betterThanBest(outcome, @) THEN Some(outcome) ELSE @,
     !.bestProgram = IF betterThanBest(outcome, s.bestEval)
                       THEN Some(cloneProgram(program)) ELSE @,
     !.solved = @ \/ outcome.solved]

recordCandidate(s, program, outcome) ==
  pushProgress(recordBest(s, program, outcome))

returnSearch(s) == [callOnProgress(s) EXCEPT !.pc = "returned"]

evaluateCandidate(s, program) ==
  recordCandidate(s, program, evaluate(program, s.level, s.evalOptions))

searchInitial(s) ==
  IF ~shouldContinue(s)
    THEN [s EXCEPT !.pc = "depth"]
    ELSE [evaluateCandidate(s, ProgramNode(<<>>)) EXCEPT
            !.frontier =
              <<[program |-> ProgramNode(<<>>),
                 eval |-> evaluate(ProgramNode(<<>>), s.level, s.evalOptions)]>>,
            !.pc = "depth"]

searchDepth(s) ==
  IF s.depth < s.maxDepth /\ shouldContinue(s) /\ ~s.solved
    THEN [s EXCEPT !.nextLayer = <<>>,
                   !.frontier = sortByScore(@),
                   !.candidates = slice(sortByScore(s.frontier), s.beamWidth),
                   !.candidateIndex = 1,
                   !.pc = "candidate"]
    ELSE returnSearch(s)

endOfLayer(s) ==
  IF Len(s.nextLayer) = 0
    THEN returnSearch(s)
    ELSE [s EXCEPT !.nextLayer = sortByScore(@),
                   !.frontier = slice(sortByScore(s.nextLayer), s.beamWidth),
                   !.depth = @ + 1,
                   !.pc = "depth"]

searchCandidate(s) ==
  IF s.candidateIndex > Len(s.candidates) \/ ~shouldContinue(s) \/ s.solved
    THEN endOfLayer(s)
    ELSE [s EXCEPT
            !.expansions =
              expandProgram(s.candidates[s.candidateIndex].program, s.options),
            !.expansionIndex = 1,
            !.pc = "expansion"]

nextCandidate(s) ==
  [s EXCEPT !.candidateIndex = @ + 1, !.pc = "candidate"]

afterExpansionNoBreak(s, expansion, outcome) ==
  [recordCandidate(s, expansion, outcome) EXCEPT
     !.nextLayer = Append(@, [program |-> expansion, eval |-> outcome]),
     !.expansionIndex = @ + 1]

afterExpansion(s, expansion, outcome) ==
  IF recordCandidate(s, expansion, outcome).solved
    THEN nextCandidate(
           [recordCandidate(s, expansion, outcome) EXCEPT
              !.nextLayer = Append(@, [program |-> expansion,
                                       eval |-> outcome])])
    ELSE [recordCandidate(s, expansion, outcome) EXCEPT
            !.nextLayer = Append(@, [program |-> expansion, eval |-> outcome]),
            !.expansionIndex = @ + 1]

searchExpansion(s) ==
  IF s.expansionIndex > Len(s.expansions)
    THEN nextCandidate(s)
  ELSE IF Len(s.expansions[s.expansionIndex].steps) > s.maxDepth
            \/ ~shouldContinue(s)
    THEN nextCandidate(s)
  ELSE afterExpansion(s, s.expansions[s.expansionIndex],
                      evaluate(s.expansions[s.expansionIndex], s.level,
                               s.evalOptions))

searchResult(s) ==
  [solved |-> s.solved,
   state |-> [bestProgram |-> s.bestProgram, bestEval |-> s.bestEval,
              attempts |-> s.attempts]]

clockRead(s, elapsed) == [s EXCEPT !.timeUp = @ \/ elapsed]

searchStep(s) ==
  CASE s.pc = "initial" -> searchInitial(s)
    [] s.pc = "depth" -> searchDepth(s)
    [] s.pc = "candidate" -> searchCandidate(s)
    [] s.pc = "expansion" -> searchExpansion(s)
    [] OTHER -> s

(***************************************************************************)
(* Levels and options of the searches.  TinyLevel is the level of          *)
(* search.test.ts; every level spawns all its robots at once.              *)
(***************************************************************************)
MaxDepth == 2

TinyLevel ==
  [grid |-> << <<Wall, Wall, Wall, Wall>>,
               <<Wall, Empty, Goal, Wall>>,
               <<Wall, Wall, Wall, Wall>> >>,
   spawner |-> [x |-> 1, y |-> 1, dir |-> 1],
   exits |-> <<Position(2, 1)>>]

FarLevel ==
  [grid |-> OpenLevel.grid,
   spawner |-> OpenLevel.spawner,
   exits |-> <<Position(3, 1)>>]

SearchLevels ==
  {SolverLevel(level, count, 0, requiredSaved, Null) :
     level \in {TinyLevel, FarLevel, GoalLevel}, count \in 1..2,
     requiredSaved \in 0..2}

SearchOptions ==
  {[actions |-> actions, maxAttempts |-> maxAttempts,
    maxDepth |-> Some(2 * maxDepth), beamWidth |-> beamWidth,
    progressEvery |-> progressEvery] :
     actions \in {<<"MOVE_FORWARD">>, <<"TURN_LEFT", "MOVE_FORWARD">>,
                  <<"MOVE_FORWARD", "WAIT">>},
     maxAttempts \in {Null, Some(1), Some(2), Some(5)},
     maxDepth \in 1..MaxDepth,
     beamWidth \in {Null, Some(3)},
     progressEvery \in {Null, Some(2)}}

SearchEvalOptions ==
  {[maxTicks |-> Some(MaxTicks - 1), maxVmSteps |-> Null, sampleEvery |-> Some(1)]}

InitSearch ==
  /\ \E level \in SearchLevels, options \in SearchOptions,
        evalOptions \in SearchEvalOptions :
       \E onProgress \in BOOLEAN :
         search = createSearch(level, options, evalOptions, onProgress)
  /\ evaluation = <<>>
  /\ worker = <<>>
  /\ app = <<>>
  /\ VmUnused
  /\ state = <<>>
  /\ everPressed = FALSE

SearchInitial ==
  /\ search.pc = "initial"
  /\ \E elapsed \in BOOLEAN : search' = searchInitial(clockRead(search, elapsed))
  /\ UNCHANGED <<simVars, vmVars, app, evaluation, worker>>

SearchDepth ==
  /\ search.pc = "depth"
  /\ \E elapsed \in BOOLEAN : search' = searchDepth(clockRead(search, elapsed))
  /\ UNCHANGED <<simVars, vmVars, app, evaluation, worker>>

SearchCandidate ==
  /\ search.pc = "candidate"
  /\ \E elapsed \in BOOLEAN : search' = searchCandidate(clockRead(search, elapsed))
  /\ UNCHANGED <<simVars, vmVars, app, evaluation, worker>>

SearchExpansion ==
  /\ search.pc = "expansion"
  /\ \E elapsed \in BOOLEAN : search' = searchExpansion(clockRead(search, elapsed))
  /\ UNCHANGED <<simVars, vmVars, app, evaluation, worker>>

NextSearch ==
  SearchInitial \/ SearchDepth \/ SearchCandidate \/ SearchExpansion

SpecSearch == InitSearch /\ [][NextSearch]_vars

(***************************************************************************)
(* solver/worker.ts: the worker's message listener.  The host posts start  *)
(* and cancel messages at any time; inbox holds those not yet delivered.   *)
(* A listener runs to completion before the next message is delivered, so  *)
(* WorkerReceive waits for the search of the previous start message to     *)
(* return: WorkerSearch is one step of runSolverSearch inside the          *)
(* listener and WorkerFinish the listener's code after it.  posted lists   *)
(* the responses; each carries the number of the start message it belongs  *)
(* to (run) and whether the host had posted a cancel message since that    *)
(* search began (cancelPending).                                           *)
(***************************************************************************)
MaxMessages == 3

createWorker ==
  [cancelled |-> FALSE,
   inbox |-> <<>>,
   posted |-> <<>>,
   handling |-> FALSE,
   run |-> 0,
   cancelPending |-> FALSE,
   sent |-> 0]

StartPayloads ==
  {[level |-> SolverLevel(level, 1, 0, 1, Null),
    evalOptions |-> [maxTicks |-> Some(MaxTicks - 1), maxVmSteps |-> Null,
                     sampleEvery |-> Some(1)],
    search |-> [actions |-> <<"TURN_LEFT", "MOVE_FORWARD">>,
                maxAttempts |-> maxAttempts, maxDepth |-> Some(4),
                beamWidth |-> Null, progressEvery |-> progressEvery]] :
     level \in {TinyLevel, FarLevel}, maxAttempts \in {Null, Some(4)},
     progressEvery \in {Null, Some(2)}}

postResponse(w, type, payload) ==
  [w EXCEPT !.posted = Append(@, [type |-> type, payload |-> payload,
                                  run |-> w.run,
                                  cancelPending |-> w.cancelPending])]

RECURSIVE postProgress(_, _, _)
postProgress(w, reports, from) ==
  IF from > Len(reports)
    THEN w
    ELSE postProgress(IF w.cancelled THEN w
                      ELSE postResponse(w, "progress", reports[from]),
                      reports, from + 1)

resultPayload(searchResult_) ==
  [attemptCount |-> searchResult_.state.attempts,
   bestScore |-> IF searchResult_.state.bestEval = Null THEN NegativeInfinity
                 ELSE searchResult_.state.bestEval[1].score,
   bestProgram |-> searchResult_.state.bestProgram,
   bestTrace |-> IF searchResult_.state.bestEval = Null THEN Null
                 ELSE Some(searchResult_.state.bestEval[1].traceLite),
   solved |-> searchResult_.solved]

receiveCancel(w) == [w EXCEPT !.cancelled = TRUE, !.inbox = Tail(@)]

receiveStart(w) ==
  [w EXCEPT !.cancelled = FALSE, !.inbox = Tail(@), !.handling = TRUE,
            !.run = @ + 1, !.cancelPending = FALSE]

finishStartSilent(w, searchResult_) ==
  [w EXCEPT !.handling = FALSE]

finishStart(w, searchResult_) ==
  IF w.cancelled
    THEN [w EXCEPT !.handling = FALSE]
    ELSE [postResponse(w, "result", resultPayload(searchResult_)) EXCEPT
            !.handling = FALSE]

InitWorker ==
  /\ worker = createWorker
  /\ search = <<>>
  /\ evaluation = <<>>
  /\ app = <<>>
  /\ VmUnused
  /\ state = <<>>
  /\ everPressed = FALSE

HostStart ==
  /\ worker.sent < MaxMessages
  /\ \E payload \in StartPayloads :
       worker' = [worker EXCEPT
                    !.inbox = Append(@, [type |-> "start", payload |-> payload]),
                    !.sent = @ + 1]
  /\ UNCHANGED <<simVars, vmVars, app, evaluation, search>>

HostCancel ==
  /\ worker.sent < MaxMessages
  /\ worker' = [worker EXCEPT
                  !.inbox = Append(@, [type |-> "cancel"]),
                  !.sent = @ + 1,
                  !.cancelPending = @ \/ worker.handling]
  /\ UNCHANGED <<simVars, vmVars, app, evaluation, search>>

WorkerReceive ==
  /\ ~worker.handling
  /\ Len(worker.inbox) > 0
  /\ IF worker.inbox[1].type = "cancel"
       THEN /\ worker' = receiveCancel(worker)
            /\ UNCHANGED search
       ELSE /\ worker' = receiveStart(worker)
            /\ search' = createSearch(worker.inbox[1].payload.level,
                                      worker.inbox[1].payload.search,
                                      worker.inbox[1].payload.evalOptions, TRUE)
  /\ UNCHANGED <<simVars, vmVars, app, evaluation>>

WorkerSearch ==
  /\ worker.handling
  /\ search.pc # "returned"
  /\ \E elapsed \in BOOLEAN : search' = searchStep(clockRead(search, elapsed))
  /\ worker' = postProgress(worker, search'.reports, Len(search.reports) + 1)
  /\ UNCHANGED <<simVars, vmVars, app, evaluation>>

WorkerFinish ==
  /\ worker.handling
  /\ search.pc = "returned"
  /\ worker' = finishStart(worker, searchResult(search))
  /\ UNCHANGED <<simVars, vmVars, app, evaluation, search>>

NextWorker ==
  HostStart \/ HostCancel \/ WorkerReceive \/ WorkerSearch \/ WorkerFinish

SpecWorker == InitWorker /\ [][NextWorker]_vars

(***************************************************************************)
(* ui/App.tsx, the run controls.  app holds the component's simulation,    *)
(* vmStatesRef (a map from robot id to VM state), runActionsRef,           *)
(* lastRunActions, isRunning, isReplaying, replayIndex and failReason;     *)
(* program is what compileProgram returns for the workspace.  The trace    *)
(* log, the selected robot and the canvas are display only.  clicks counts *)
(* the presses of the console's buttons.  Three fields are history:        *)
(* runStates lists the simulations setSimulation has shown since the       *)
(* recording in runActions began on a fresh simulation (<<>> when the      *)
(* recording did not begin on one), lastRunStates is runStates as it was   *)
(* when lastRunActions was last set, and replayed lists the simulations    *)
(* the replay in progress has shown.                                       *)
(***************************************************************************)
MaxClicks == 2

DEFAULT_VM_MAX_STEPS == 200

LongRunTicks == 2000

freshSimulation(level) ==
  createSimulationForLevel(level, [maxTicks |-> Null])

createApp(level, program) ==
  [level |-> level,
   program |-> program,
   simulation |-> freshSimulation(level),
   vmStates |-> <<>>,
   runActions |-> <<>>,
   lastRunActions |-> <<>>,
   isRunning |-> FALSE,
   isReplaying |-> FALSE,
   replayIndex |-> 0,
   failReason |-> Null,
   clicks |-> 0,
   runStates |-> <<freshSimulation(level)>>,
   lastRunStates |-> <<>>,
   replayed |-> <<>>]

isBusy(a) == a.isRunning \/ a.isReplaying

hasReplay(a) == Len(a.lastRunActions) > 0

appVm(a, robot) ==
  IF robot.id \in DOMAIN a.vmStates
    THEN a.vmStates[robot.id]
    ELSE createVm(a.program, DEFAULT_VM_MAX_STEPS)

appContextOf(simulation, robot) ==
  [world |-> simulation.world,
   robot |-> robot,
   exits |-> simulation.exits,
   doorOpen |-> FALSE,
   globalSignal |-> simulation.globalSignal]

stepAppRobotVm(simulation, robot, vmState) ==
  IF ~robot.alive \/ robot.reachedGoal \/ vmState.status # "running"
    THEN [state |-> vmState, action |-> NoAction, stepped |-> FALSE]
    ELSE steppedResult(stepVm(vmState, appContextOf(simulation, robot)))

stepAppVms(a) ==
  [index \in DOMAIN a.simulation.robots |->
     stepAppRobotVm(a.simulation, a.simulation.robots[index],
                    appVm(a, a.simulation.robots[index]))]

robotIndex(robots, id) ==
  CHOOSE index \in DOMAIN robots : robots[index].id = id

vmStatesAfter(a, results) ==
  [id \in DOMAIN a.vmStates
            \cup {a.simulation.robots[index].id : index \in DOMAIN results} |->
     IF \E index \in DOMAIN results : a.simulation.robots[index].id = id
       THEN results[robotIndex(a.simulation.robots, id)].state
       ELSE a.vmStates[id]]

actionsOf(results) == [index \in DOMAIN results |-> results[index].action]

stepsSimulation(simulation, actions) ==
  \/ \E index \in DOMAIN actions : actions[index] # NoAction
  \/ Len(simulation.robots) = 0 /\ hasRemainingSpawns(simulation)

actionSetFor(simulation, actionSet) ==
  [index \in 1..Len(spawnNextRobot(simulation,
                      buildOccupiedPositions(simulation.robots)).robots) |->
     IF index <= Len(actionSet) THEN actionSet[index] ELSE NoAction]

advanceRun(simulation, actions) ==
  IF stepsSimulation(simulation, actions)
    THEN stepSimulation(simulation, actionSetFor(simulation, actions))
    ELSE simulation

sawStepLimit(results) ==
  \E index \in DOMAIN results :
    results[index].stepped /\ results[index].state.status = "step_limit"

failReasonOf(a, results, nextSimulation) ==
  IF nextSimulation.status = "lost"
    THEN IF sawStepLimit(results)
              \/ nextSimulation.stepCount >= nextSimulation.maxSteps
           THEN Some("step_limit")
         ELSE IF /\ savedCount(nextSimulation) < nextSimulation.requiredSaved
                 /\ ~\E index \in DOMAIN nextSimulation.robots :
                       nextSimulation.robots[index].alive
                 /\ nextSimulation.spawnedCount >= nextSimulation.spawner.count
           THEN Some("quota")
         ELSE IF \E index \in DOMAIN nextSimulation.robots :
                   ~nextSimulation.robots[index].alive
           THEN Some("hazard")
         ELSE Some("unknown")
  ELSE IF nextSimulation.status = "won" THEN Null
  ELSE a.failReason

runOver(nextSimulation, vmStates) ==
  \/ nextSimulation.status # "running"
  \/ DOMAIN vmStates = {}
  \/ \A id \in DOMAIN vmStates : vmStates[id].status # "running"

shownAfter(a, nextSimulation) ==
  IF a.runStates = <<>> \/ nextSimulation = a.simulation
    THEN a.runStates
    ELSE Append(a.runStates, nextSimulation)

finishStep(a, results, nextSimulation, vmStates, runActions, runStates) ==
  [a EXCEPT
     !.simulation = nextSimulation,
     !.vmStates = vmStates,
     !.runActions = runActions,
     !.failReason = failReasonOf(a, results, nextSimulation),
     !.isRunning = IF runOver(nextSimulation, vmStates) THEN FALSE ELSE @,
     !.lastRunActions =
       IF runOver(nextSimulation, vmStates) /\ Len(runActions) > 0
         THEN runActions ELSE @,
     !.runStates = runStates,
     !.lastRunStates =
       IF runOver(nextSimulation, vmStates) /\ Len(runActions) > 0
         THEN runStates ELSE @,
     !.replayed = <<>>]

stepAfterAdvance(a, results, nextSimulation) ==
  finishStep(a, results, nextSimulation, vmStatesAfter(a, results),
             IF stepsSimulation(a.simulation, actionsOf(results))
               THEN Append(a.runActions, actionsOf(results))
               ELSE a.runActions,
             shownAfter(a, nextSimulation))

stepAfterVms(a, results) ==
  stepAfterAdvance(a, results,
    loseAtStepLimit(advanceRun(a.simulation, actionsOf(results)), results))

performStep(a) ==
  IF a.simulation.status # "running"
    THEN [a EXCEPT !.isRunning = FALSE]
  ELSE IF Len(a.simulation.robots) = 0 /\ ~hasRemainingSpawns(a.simulation)
    THEN [a EXCEPT !.isRunning = FALSE]
  ELSE stepAfterVms(a, stepAppVms(a))

allStopped(a) ==
  /\ DOMAIN a.vmStates # {}
  /\ \A id \in DOMAIN a.vmStates : a.vmStates[id].status # "running"

restartRecording(a) ==
  [a EXCEPT !.vmStates = <<>>,
            !.runActions = <<>>,
            !.runStates = IF a.simulation = freshSimulation(a.level)
                            THEN <<a.simulation>> ELSE <<>>]

handleRun(a) ==
  IF a.simulation.status # "running" THEN a
  ELSE IF ~a.isRunning /\ ~a.isReplaying /\ allStopped(a)
    THEN [restartRecording(a) EXCEPT !.isRunning = TRUE]
  ELSE [a EXCEPT !.isRunning = TRUE]

handlePause(a) == [a EXCEPT !.isRunning = FALSE, !.isReplaying = FALSE]

handleReset(a) ==
  [a EXCEPT !.isRunning = FALSE,
            !.isReplaying = FALSE,
            !.simulation = freshSimulation(a.level),
            !.failReason = Null,
            !.vmStates = <<>>,
            !.runActions = <<>>,
            !.runStates = <<freshSimulation(a.level)>>,
            !.replayed = <<>>]

handleReplay(a) ==
  IF Len(a.lastRunActions) = 0 THEN a
  ELSE [a EXCEPT !.isRunning = FALSE,
                 !.isReplaying = TRUE,
                 !.simulation = freshSimulation(a.level),
                 !.replayIndex = 0,
                 !.failReason = Null,
                 !.vmStates = <<>>,
                 !.runStates = IF a.runActions = <<>>
                                 THEN <<freshSimulation(a.level)>> ELSE <<>>,
                 !.replayed = <<freshSimulation(a.level)>>]

replayShows(a, nextSimulation) ==
  [a EXCEPT !.simulation = nextSimulation,
            !.replayIndex = @ + 1,
            !.isReplaying =
              ~(\/ nextSimulation.status # "running"
                \/ a.replayIndex + 1 >= Len(a.lastRunActions)),
            !.runStates = <<>>,
            !.replayed = Append(@, nextSimulation)]

replayTick(a) ==
  IF a.replayIndex >= Len(a.lastRunActions)
    THEN [a EXCEPT !.isReplaying = FALSE]
    ELSE replayShows(a,
           stepSimulation(a.simulation,
             actionSetFor(a.simulation, a.lastRunActions[a.replayIndex + 1])))

(***************************************************************************)
(* The levels and programs of the interactive runs: short levels that end  *)
(* by the simulation's own rules, and one long level on which a robot's    *)
(* VM reaches its step limit before the simulation's tick limit.           *)
(***************************************************************************)
AppLevels ==
  {SolverLevel(level, count, intervalTicks, 1, Some(MaxTicks)) :
     level \in {OpenLevel, GoalLevel}, count \in 1..2, intervalTicks \in 0..1}
    \cup {SolverLevel(OpenLevel, 1, 0, 1, Some(LongRunTicks))}

AppPrograms ==
  {NoSteps, ProgramNode(<<Move>>), ProgramNode(<<Move, Left>>),
   ProgramNode(<<RepeatUntilNode(OnGoal, ProgramNode(<<Move>>))>>)}

InitApp ==
  /\ \E level \in AppLevels, program \in AppPrograms :
       app = createApp(level, program)
  /\ evaluation = <<>>
  /\ search = <<>>
  /\ worker = <<>>
  /\ VmUnused
  /\ state = <<>>
  /\ everPressed = FALSE

clicked(a) == [a EXCEPT !.clicks = @ + 1]

RunInterval ==
  /\ app.isRunning
  /\ app' = performStep(app)
  /\ UNCHANGED <<simVars, vmVars, solverVars>>

ReplayInterval ==
  /\ app.isReplaying
  /\ app' = replayTick(app)
  /\ UNCHANGED <<simVars, vmVars, solverVars>>

HandleRun ==
  /\ app.clicks < MaxClicks
  /\ ~isBusy(app)
  /\ app' = clicked(handleRun(app))
  /\ UNCHANGED <<simVars, vmVars, solverVars>>

HandleStep ==
  /\ app.clicks < MaxClicks
  /\ ~isBusy(app)
  /\ app' = clicked(performStep(app))
  /\ UNCHANGED <<simVars, vmVars, solverVars>>

HandlePause ==
  /\ app.clicks < MaxClicks
  /\ isBusy(app)
  /\ app' = clicked(handlePause(app))
  /\ UNCHANGED <<simVars, vmVars, solverVars>>

HandleReset ==
  /\ app.clicks < MaxClicks
  /\ app' = clicked(handleReset(app))
  /\ UNCHANGED <<simVars, vmVars, solverVars>>

HandleReplay ==
  /\ app.clicks < MaxClicks
  /\ hasReplay(app)
  /\ ~isBusy(app)
  /\ app' = clicked(handleReplay(app))
  /\ UNCHANGED <<simVars, vmVars, solverVars>>

NextApp ==
  \/ RunInterval
  \/ ReplayInterval
  \/ HandleRun
  \/ HandleStep
  \/ HandlePause
  \/ HandleReset
  \/ HandleReplay

SpecApp == InitApp /\ [][NextApp]_vars

(***************************************************************************)
(* Notation for the properties: the robots a tick starts with (after the   *)
(* spawn step), their state after the action-resolution step, and the      *)
(* occupancy set a robot's own turn of that step finds.                    *)
(***************************************************************************)
Running == state.status = "running"

spawnedRobots(s) == spawnNextRobot(s, buildOccupiedPositions(s.robots)).robots

resolvedRobots(s, acts) == resolveActions(s, spawnedRobots(s), acts).robots

samePosition(a, b) == a.x = b.x /\ a.y = b.y

occupiedAtTurn(s, acts, index) ==
  LET robots == spawnedRobots(s)
  IN resolveRobotsFrom(s, isDoorOpen(s.world, robots, s.doorUnlocked),
                       SubSeq(robots, 1, index - 1), acts, 1,
                       [robots |-> <<>>,
                        nextOccupied |-> buildOccupiedPositions(robots),
                        globalSignal |-> s.globalSignal]).nextOccupied
       \ {positionKey(robots[index].x, robots[index].y)}

advances(s, acts, index) ==
  /\ isBlockingRobot(spawnedRobots(s)[index])
  /\ acts[index] = "MOVE_FORWARD"

(***************************************************************************)
(* C1: at every tick boundary no two blocking robots (alive and not        *)
(* reachedGoal) occupy the same cell, for every spawner configuration.     *)
(***************************************************************************)
C1_OneBlockingRobotPerCell ==
  \A i, j \in DOMAIN state.robots :
    (i < j /\ isBlockingRobot(state.robots[i]) /\ isBlockingRobot(state.robots[j]))
      => ~samePosition(state.robots[i], state.robots[j])

(***************************************************************************)
(* C2: stepSimulation called on a state whose status is won or lost        *)
(* returns that state unchanged, whatever the action array.                *)
(***************************************************************************)
C2_NoOpUnlessRunning ==
  ~Running => \A acts \in ActionArrays(state) : stepSimulation(state, acts) = state

C2_Witness ==
  /\ state.status = "lost"
  /\ \E i \in DOMAIN state.robots : isBlockingRobot(state.robots[i])
  /\ \E acts \in ActionArrays(state) :
       /\ \E i \in DOMAIN acts : acts[i] = "MOVE_FORWARD"
       /\ stepSimulation(state, acts) = state

(***************************************************************************)
(* C4: along every run each robot's alive flag only goes from true to      *)
(* false, reachedGoal only from false to true and doorUnlocked only from   *)
(* false to true; robots are never dropped.                                *)
(***************************************************************************)
C4_Monotonic ==
  [][/\ Len(state'.robots) >= Len(state.robots)
     /\ \A i \in DOMAIN state.robots :
          /\ state'.robots[i].alive => state.robots[i].alive
          /\ state.robots[i].reachedGoal => state'.robots[i].reachedGoal
     /\ state.doorUnlocked => state'.doorUnlocked]_vars

C4_Witness ==
  /\ state.doorUnlocked
  /\ ~isPressurePlatePressed(state.world, state.robots)
  /\ \E i \in DOMAIN state.robots : ~state.robots[i].alive
  /\ \E i \in DOMAIN state.robots : state.robots[i].reachedGoal
  /\ state.stepCount > 0

(***************************************************************************)
(* C5: actions are resolved in array order against the live occupancy set: *)
(* when an earlier robot advances out of a cell, a later robot advancing   *)
(* into that cell in the same tick succeeds, provided the cell is open     *)
(* floor and no robot between the two in array order holds it after its    *)
(* own turn.                                                               *)
(***************************************************************************)
C5_Queueing ==
  Running =>
    \A acts \in ActionArrays(state) :
      LET before == spawnedRobots(state)
          after == resolvedRobots(state, acts)
          doorOpen == isDoorOpen(state.world, before, state.doorUnlocked)
      IN \A i, j \in DOMAIN before :
           ( /\ i < j
             /\ advances(state, acts, i)
             /\ advances(state, acts, j)
             /\ ~samePosition(after[i], before[i])
             /\ samePosition(getForwardPosition(before[j], before[j].direction),
                             before[i])
             /\ ~isBlocked(state, doorOpen, before[i].x, before[i].y)
             /\ \A k \in (i + 1)..(j - 1) :
                  ~(isBlockingRobot(after[k]) /\ samePosition(after[k], before[i])) )
           => samePosition(after[j], before[i])

C5_Witness ==
  /\ Running
  /\ Len(state.robots) = 2
  /\ state.world = createWorld(OpenLevel.grid)
  /\ \A i \in 1..2 : isBlockingRobot(state.robots[i])
                       /\ state.robots[i].direction = 1 /\ state.robots[i].y = 1
  /\ state.robots[1].x = 2
  /\ state.robots[2].x = 1
  /\ LET next == stepSimulation(state, <<"MOVE_FORWARD", "MOVE_FORWARD">>)
     IN next.robots[1].x = 3 /\ next.robots[2].x = 2

(***************************************************************************)
(* C6: a MOVE_FORWARD into a cell held by a blocking robot that has not    *)
(* vacated it earlier in the tick's array order (it comes later in the     *)
(* array, or it is still there after its own turn) leaves the mover where  *)
(* it was.                                                                 *)
(***************************************************************************)
C6_Blocking ==
  Running =>
    \A acts \in ActionArrays(state) :
      LET before == spawnedRobots(state)
          after == resolvedRobots(state, acts)
      IN \A j \in DOMAIN before :
           ( /\ advances(state, acts, j)
             /\ \E k \in DOMAIN before :
                  /\ k # j
                  /\ isBlockingRobot(before[k])
                  /\ samePosition(before[k],
                                  getForwardPosition(before[j], before[j].direction))
                  /\ \/ k > j
                     \/ isBlockingRobot(after[k]) /\ samePosition(after[k], before[k]) )
           => samePosition(after[j], before[j])

(***************************************************************************)
(* C7: after every running tick the status is won if the number of saved   *)
(* robots reaches requiredSaved (also when stepCount reaches maxSteps in   *)
(* that tick); otherwise lost if stepCount >= maxSteps or if no robot is   *)
(* alive and unsaved and spawnedCount >= spawner.count; otherwise running. *)
(* A single robot one move from the sole exit gives won after one tick     *)
(* with requiredSaved = 1 and lost with requiredSaved = 2.                 *)
(***************************************************************************)
C7_StatusPriority ==
  Running =>
    \A acts \in ActionArrays(state) :
      LET next == stepSimulation(state, acts)
          saved == Cardinality({i \in DOMAIN next.robots : next.robots[i].reachedGoal})
          active == {i \in DOMAIN next.robots :
                       next.robots[i].alive /\ ~next.robots[i].reachedGoal}
      IN /\ next.stepCount = state.stepCount + 1
         /\ saved >= next.requiredSaved => next.status = "won"
         /\ (saved < next.requiredSaved /\ next.stepCount >= next.maxSteps)
              => next.status = "lost"
         /\ ( /\ saved < next.requiredSaved
              /\ next.stepCount < next.maxSteps
              /\ active = {}
              /\ next.spawnedCount >= next.spawner.count )
              => next.status = "lost"
         /\ ( /\ saved < next.requiredSaved
              /\ next.stepCount < next.maxSteps
              /\ (active # {} \/ next.spawnedCount < next.spawner.count) )
              => next.status = "running"
         /\ ( /\ state.stepCount = 0
              /\ state.spawner.count = 1
              /\ Len(state.robots) = 1
              /\ isBlockingRobot(state.robots[1])
              /\ acts[1] = "MOVE_FORWARD"
              /\ next.robots[1].reachedGoal )
              => /\ state.requiredSaved = 1 => next.status = "won"
                 /\ state.requiredSaved = 2 => next.status = "lost"

C7_Witness ==
  /\ state.status = "won"
  /\ state.stepCount = state.maxSteps
  /\ state.stepCount > 1
  /\ state.requiredSaved = 2

(***************************************************************************)
(* C8: with intervalTicks > 0, a spawn that is due (pending, and the       *)
(* scheduled tick has arrived) while a blocking robot occupies the spawner *)
(* cell at the start of the tick is deferred: no robot is appended and     *)
(* spawnedCount and nextSpawnTick are unchanged, so the spawn is still due *)
(* at the next tick; a due spawn whose entry cell is free at the start of  *)
(* the tick appends exactly one robot in that tick.                        *)
(***************************************************************************)
spawnDue(s) ==
  /\ s.status = "running"
  /\ s.spawner.intervalTicks > 0
  /\ s.spawnedCount < s.spawner.count
  /\ s.nextSpawnTick # Null
  /\ s.stepCount >= s.nextSpawnTick[1]

entryOccupied(s) ==
  \E i \in DOMAIN s.robots :
    /\ isBlockingRobot(s.robots[i])
    /\ s.robots[i].x = s.spawner.x
    /\ s.robots[i].y = s.spawner.y

C8_DelayedSpawn ==
  spawnDue(state) =>
    \A acts \in ActionArrays(state) :
      LET next == stepSimulation(state, acts)
      IN IF entryOccupied(state)
           THEN /\ Len(next.robots) = Len(state.robots)
                /\ next.spawnedCount = state.spawnedCount
                /\ next.nextSpawnTick = state.nextSpawnTick
                /\ next.status = "running" => spawnDue(next)
           ELSE /\ Len(next.robots) = Len(state.robots) + 1
                /\ next.spawnedCount = state.spawnedCount + 1
                /\ next.nextSpawnTick =
                     Some(state.nextSpawnTick[1] + state.spawner.intervalTicks)
                /\ next.robots[Len(next.robots)].id = <<"robot", next.spawnedCount>>

C8_Witness ==
  /\ spawnDue(state)
  /\ entryOccupied(state)
  /\ state.spawner.count = 2
  /\ state.spawner.intervalTicks = 1
  /\ state.stepCount = 1
  /\ LET blocked == stepSimulation(state, <<"MOVE_FORWARD">>)
     IN /\ Len(blocked.robots) = 1
        /\ blocked.spawnedCount = 1
        /\ blocked.nextSpawnTick = Some(1)
        /\ ~entryOccupied(blocked)
        /\ LET later == stepSimulation(blocked, <<"WAIT", "WAIT">>)
           IN Len(later.robots) = 2 /\ later.spawnedCount = 2
                /\ later.nextSpawnTick = Some(2)

(***************************************************************************)
(* C9: once a blocking robot has stood on a PressurePlate at a tick        *)
(* boundary, in every later tick no MOVE_FORWARD into a Door tile is       *)
(* rejected because of the door: a mover that stays in place found the     *)
(* door cell occupied.                                                     *)
(***************************************************************************)
entersDoor(s, acts, index) ==
  LET robot == spawnedRobots(s)[index]
      forward == getForwardPosition(robot, robot.direction)
  IN advances(s, acts, index) /\ isDoor(s.world, forward.x, forward.y)

doorCellFree(s, acts, index) ==
  LET robot == spawnedRobots(s)[index]
      forward == getForwardPosition(robot, robot.direction)
  IN positionKey(forward.x, forward.y) \notin occupiedAtTurn(s, acts, index)

stayed(s, acts, index) ==
  samePosition(resolvedRobots(s, acts)[index], spawnedRobots(s)[index])

C10_DoorsPassableIffUnlocked ==
  Running =>
    \A acts \in ActionArrays(state) :
      \A j \in DOMAIN acts :
        entersDoor(state, acts, j) =>
          /\ ~state.doorUnlocked => stayed(state, acts, j)
          /\ (state.doorUnlocked /\ doorCellFree(state, acts, j))
               => ~stayed(state, acts, j)

(***************************************************************************)
(* C10 as amended: a door is passable in a tick iff the tick starts with   *)
(* doorUnlocked = true or with a blocking robot on a pressure plate,       *)
(* counting the robot spawned at the start of that tick.                   *)
(***************************************************************************)
doorOpenAtStart(s) ==
  s.doorUnlocked \/ isPressurePlatePressed(s.world, spawnedRobots(s))

C10_DoorsPassableIffOpen ==
  Running =>
    \A acts \in ActionArrays(state) :
      \A j \in DOMAIN acts :
        entersDoor(state, acts, j) =>
          /\ ~doorOpenAtStart(state) => stayed(state, acts, j)
          /\ (doorOpenAtStart(state) /\ doorCellFree(state, acts, j))
               => ~stayed(state, acts, j)

C10_Witness ==
  /\ Running
  /\ ~doorOpenAtStart(state)
  /\ state.stepCount > 0
  /\ \E acts \in ActionArrays(state) :
       \E j \in DOMAIN acts :
         /\ entersDoor(state, acts, j)
         /\ doorCellFree(state, acts, j)
         /\ stayed(state, acts, j)

(***************************************************************************)
(* C11: a blocking robot's MOVE_FORWARD is applied only if the destination *)
(* tile is not a Wall, not a Hazard (or Water) and not a closed Door, and  *)
(* the destination is not in the live occupancy set; in every other case   *)
(* the robot's position is unchanged after the tick.                       *)
(***************************************************************************)
forwardOf(s, index) ==
  getForwardPosition(spawnedRobots(s)[index], spawnedRobots(s)[index].direction)

destinationHeld(s, acts, index) ==
  positionKey(forwardOf(s, index).x, forwardOf(s, index).y)
    \in occupiedAtTurn(s, acts, index)

destinationClosed(s, index) ==
  isBlocked(s, doorOpenAtStart(s), forwardOf(s, index).x, forwardOf(s, index).y)

C11_MoveOnlyIfClear ==
  Running =>
    \A acts \in ActionArrays(state) :
      \A j \in DOMAIN acts :
        ( /\ advances(state, acts, j)
          /\ \/ destinationClosed(state, j)
             \/ isHazard(state.world, forwardOf(state, j).x, forwardOf(state, j).y)
             \/ destinationHeld(state, acts, j) )
        => samePosition(stepSimulation(state, acts).robots[j],
                        spawnedRobots(state)[j])

(***************************************************************************)
(* C11 as amended: the action-resolution step moves an advancing blocking  *)
(* robot exactly when its destination is not a Wall, not a closed Door and *)
(* not in the live occupancy set; a Hazard or Water destination does not   *)
(* reject the move.  The raft step that follows may still carry the robot. *)
(***************************************************************************)
C11_MoveIffOpenAndFree ==
  Running =>
    \A acts \in ActionArrays(state) :
      \A j \in DOMAIN acts :
        advances(state, acts, j) =>
          (stayed(state, acts, j)
             <=> (destinationClosed(state, j) \/ destinationHeld(state, acts, j)))

C11_Witness ==
  /\ Running
  /\ \E acts \in ActionArrays(state) :
       /\ \E j \in DOMAIN acts :
            /\ advances(state, acts, j)
            /\ isHazard(state.world, forwardOf(state, j).x, forwardOf(state, j).y)
            /\ ~stayed(state, acts, j)
       /\ \E j \in DOMAIN acts :
            /\ advances(state, acts, j)
            /\ destinationHeld(state, acts, j)
            /\ stayed(state, acts, j)

(***************************************************************************)
(* C12: a robot whose MOVE_FORWARD lands it on a Hazard or Water tile has  *)
(* alive = false after that tick; TURN_LEFT, TURN_RIGHT and WAIT never     *)
(* change alive, also for a robot standing on a hazard tile; a robot that  *)
(* steps onto a Raft tile stays alive.                                     *)
(***************************************************************************)
landsOn(s, acts, index, tiles) ==
  /\ advances(s, acts, index)
  /\ ~stayed(s, acts, index)
  /\ getTile(s.world, forwardOf(s, index).x, forwardOf(s, index).y) \in tiles

C12_HazardKills ==
  Running =>
    \A acts \in ActionArrays(state) :
      \A j \in DOMAIN acts :
        /\ landsOn(state, acts, j, {Hazard, Water})
             => ~stepSimulation(state, acts).robots[j].alive
        /\ acts[j] \in {"TURN_LEFT", "TURN_RIGHT", "WAIT"}
             => stepSimulation(state, acts).robots[j].alive
                  = spawnedRobots(state)[j].alive
        /\ landsOn(state, acts, j, {Raft})
             => stepSimulation(state, acts).robots[j].alive

C12_Witness ==
  /\ Running
  /\ state.stepCount > 0
  /\ Len(state.robots) = 1
  /\ isBlockingRobot(state.robots[1])
  /\ isHazard(state.world, state.robots[1].x, state.robots[1].y)
  /\ state.robots[1].direction = 1
  /\ stepSimulation(state, <<"TURN_LEFT">>).robots[1].alive
  /\ landsOn(state, <<"MOVE_FORWARD">>, 1, {Hazard, Water})
  /\ ~stepSimulation(state, <<"MOVE_FORWARD">>).robots[1].alive

(***************************************************************************)
(* C13: for a program whose RepeatUntil condition never becomes true and   *)
(* whose body emits actions, the calls of stepVm return exactly maxSteps   *)
(* actions, one per call, and the call after that returns status           *)
(* step_limit and no action, whatever structural nodes (sequence, repeat,  *)
(* repeat-until, if) the calls visit; the program never ends as done.      *)
(***************************************************************************)
C13_StepLimit ==
  vm.program \in EndlessPrograms =>
    /\ Len(emitted) = vm.steps
    /\ vm.steps <= vm.maxSteps
    /\ vm.status # "done"
    /\ vm.status = "step_limit"
         => (Len(emitted) = vm.maxSteps /\ result = NoAction)
    /\ (pc = "idle" /\ vm.status = "running" /\ emitted # <<>>)
         => result = emitted[Len(emitted)]

C13_Witness ==
  /\ vm.program \in EndlessPrograms
  /\ \E i \in DOMAIN vm.program.steps[1].body.steps :
       vm.program.steps[1].body.steps[i].type = "if"
  /\ vm.status = "step_limit"
  /\ vm.maxSteps = MaxVmSteps
  /\ Len(emitted) = vm.maxSteps
  /\ result = NoAction

(***************************************************************************)
(* C14: every call of stepVm returns: the eager loop over structural nodes *)
(* always ends in an emitted action or in end-of-program, also for a       *)
(* RepeatUntil whose condition is false while its body emits no action     *)
(* (empty body, or a body of only empty if-branches or zero-count          *)
(* repeats).                                                               *)
(***************************************************************************)
C14_StepVmReturns == (pc = "loop") ~> (pc = "idle")

(***************************************************************************)
(* C15: a call of stepVm returns at most one action; the VM's steps        *)
(* counter increases by exactly 1 when the call returns an action and is   *)
(* unchanged otherwise; steps never decreases and never exceeds maxSteps.  *)
(***************************************************************************)
C15_OneActionPerCall ==
  [][/\ vm'.steps \in {vm.steps, vm.steps + 1}
     /\ vm'.steps <= vm'.maxSteps
     /\ vm'.maxSteps = vm.maxSteps
     /\ (vm'.steps = vm.steps + 1) <=> (emitted' # emitted)
     /\ emitted' # emitted =>
          /\ pc = "loop" /\ pc' = "idle"
          /\ result' \in RobotAction
          /\ emitted' = Append(emitted, result')
     /\ (pc' = "idle" /\ emitted' = emitted) => result' = NoAction]_vars

C15_Witness ==
  /\ pc = "idle"
  /\ vm.status = "running"
  /\ vm.steps = vm.maxSteps
  /\ vm.steps = MaxVmSteps
  /\ Len(emitted) = vm.steps
  /\ result = emitted[Len(emitted)]

(***************************************************************************)
(* C16: RepeatUntil(cond, body).  If cond is true in the context of the    *)
(* call that first reaches the node, no body action is emitted and the     *)
(* node after it runs; otherwise the whole body runs, cond is rechecked    *)
(* only after the body's last action, against the context of the following *)
(* call and never mid-body, and the loop is left exactly when a recheck is *)
(* true.  For the program RepeatUntil(signal, [move, left]); wait: the     *)
(* emitted actions are whole [move, left] rounds followed by wait, a call  *)
(* that starts a round has the signal off, and the call that emits wait    *)
(* has it on.                                                              *)
(***************************************************************************)
C16_RepeatUntil ==
  (vm.program \in UntilPrograms /\ pc = "idle") =>
    /\ \A i \in DOMAIN emitted :
         /\ i % 2 = 0 => emitted[i] = "TURN_LEFT"
         /\ i % 2 = 1 => emitted[i] \in {"MOVE_FORWARD", "WAIT"}
         /\ emitted[i] = "WAIT" => i = Len(emitted)
    /\ result = "WAIT" => context.globalSignal
    /\ result = "MOVE_FORWARD" => ~context.globalSignal
    /\ vm.status = "done" => (emitted # <<>> /\ emitted[Len(emitted)] = "WAIT")

C16_Witness ==
  /\ vm.program \in UntilPrograms
  /\ pc = "idle"
  /\ emitted = <<"MOVE_FORWARD", "TURN_LEFT", "MOVE_FORWARD", "TURN_LEFT", "WAIT">>
  /\ result = "WAIT"
  /\ context.globalSignal

(***************************************************************************)
(* C17: Repeat(n, body) runs its body exactly n times.  For the program    *)
(* Repeat(n, body); wait with a body of m actions, the emitted actions are *)
(* always a prefix of n copies of the body followed by wait: wait is the   *)
(* action number n*m + 1 and never earlier, and for n = 0 it is the first. *)
(***************************************************************************)
expectedOfRepeat(node, i) ==
  IF i <= node.count * Len(node.body.steps)
    THEN node.body.steps[((i - 1) % Len(node.body.steps)) + 1].action
    ELSE "WAIT"

C17_RepeatCount ==
  (vm.program \in RepeatPrograms /\ pc = "idle") =>
    /\ Len(emitted) <= vm.program.steps[1].count
                         * Len(vm.program.steps[1].body.steps) + 1
    /\ \A i \in DOMAIN emitted :
         emitted[i] = expectedOfRepeat(vm.program.steps[1], i)
    /\ vm.status = "done" =>
         Len(emitted) = vm.program.steps[1].count
                          * Len(vm.program.steps[1].body.steps) + 1

C17_Witness ==
  /\ vm.program = ProgramNode(<<RepeatNode(2, ProgramNode(<<Move, Left>>)), Wait>>)
  /\ pc = "idle"
  /\ emitted = <<"MOVE_FORWARD", "TURN_LEFT", "MOVE_FORWARD", "TURN_LEFT", "WAIT">>

(***************************************************************************)
(* C18: a running VM stepped after the last action of its program has been *)
(* emitted returns no action and status done, for every program whose      *)
(* total number of actions is at most maxSteps, including exactly          *)
(* maxSteps.  For the branch-and-action programs: once every frame is at   *)
(* the end of its sequence and no more than maxSteps actions were emitted, *)
(* the VM is still running (not yet stepped) or done, and never at the     *)
(* step limit.                                                             *)
(***************************************************************************)
exhausted(frames) ==
  \A i \in DOMAIN frames :
    /\ frames[i].kind = "sequence"
    /\ frames[i].index >= Len(frames[i].node.steps)

C18_DoneAfterLastAction ==
  (/\ vm.program \in StraightPrograms
   /\ pc = "idle"
   /\ exhausted(vm.stack)
   /\ Len(emitted) <= vm.maxSteps) =>
    /\ vm.status \in {"running", "done"}
    /\ vm.status = "done" => result = NoAction

(***************************************************************************)
(* C19: evaluate always terminates: its run loop reaches a non-running     *)
(* simulation status after at most the tick ceiling of iterations, also    *)
(* when spawns are pending with intervalTicks > 0 while every robot on the *)
(* board yields no action.  The loop never starts an iteration beyond the  *)
(* tick ceiling: while the status is running fewer than maxSteps           *)
(* iterations were made.                                                   *)
(***************************************************************************)
C19_EvaluateTerminates ==
  (evaluation.simulation.status = "running") =>
    evaluation.tickIndex < evaluation.simulation.maxSteps

(***************************************************************************)
(* C20: solver soundness.  Whenever runSolverSearch has solved = true, its *)
(* bestProgram is a program whose evaluation was solved, and evaluating    *)
(* bestProgram again on the same level with the same options reports       *)
(* solved = true.                                                          *)
(***************************************************************************)
C20_SolverSoundness ==
  search.solved =>
    /\ search.bestProgram # Null
    /\ search.bestEval[1].solved
    /\ evaluate(search.bestProgram[1], search.level, search.evalOptions).solved

C20_Witness ==
  /\ search.pc = "returned"
  /\ searchResult(search).solved
  /\ search.attempts >= 3
  /\ Len(search.bestProgram[1].steps) = 2
  /\ \E i \in DOMAIN search.nextLayer :
       /\ ~search.nextLayer[i].eval.solved
       /\ search.nextLayer[i].eval.score > NegativeInfinity

(***************************************************************************)
(* C21: runSolverSearch never evaluates more than maxAttempts candidates.  *)
(* At every point the attempts counter equals the number of evaluate calls *)
(* made and is at most maxAttempts; with maxAttempts = 1 a returned search *)
(* has evaluated nothing but the empty program, has attempts = 1 unless    *)
(* the time budget fired first, and is solved only if the empty program's  *)
(* evaluation is.                                                          *)
(***************************************************************************)
C21_AttemptBudget ==
  /\ search.attempts = Len(search.evaluated)
  /\ search.attempts <= search.maxAttempts
  /\ (search.maxAttempts = 1 /\ search.pc = "returned") =>
       /\ \A i \in DOMAIN search.evaluated :
            search.evaluated[i].program = ProgramNode(<<>>)
       /\ ~search.timeUp => search.attempts = 1
       /\ search.solved =>
            (search.attempts = 1 /\ search.evaluated[1].eval.solved)
       /\ searchResult(search).state.attempts = search.attempts

C21_Witness ==
  /\ search.pc = "returned"
  /\ search.maxAttempts = 1
  /\ search.maxDepth = 2
  /\ search.attempts = 1
  /\ ~search.timeUp
  /\ ~searchResult(search).solved
  /\ search.level.grid = FarLevel.grid

(***************************************************************************)
(* Notation for the search properties: the place of a program in the       *)
(* evaluation order, its parent (the program without its last step) and    *)
(* the place of its last action in the action vocabulary.                  *)
(***************************************************************************)
placeOf(program) ==
  CHOOSE i \in DOMAIN search.evaluated : search.evaluated[i].program = program

parentOf(program) == ProgramNode(SubSeq(program.steps, 1, Len(program.steps) - 1))

vocabularyPlace(program) ==
  CHOOSE k \in DOMAIN search.options.actions :
    search.options.actions[k] = program.steps[Len(program.steps)].action

ranksBefore(a, b) ==
  \/ search.evaluated[placeOf(a)].eval.score > search.evaluated[placeOf(b)].eval.score
  \/ /\ search.evaluated[placeOf(a)].eval.score
          = search.evaluated[placeOf(b)].eval.score
     /\ placeOf(a) < placeOf(b)

inSearchOrder(a, b) ==
  \/ Len(a.steps) < Len(b.steps)
  \/ /\ Len(a.steps) = Len(b.steps)
     /\ Len(a.steps) > 0
     /\ \/ parentOf(a) = parentOf(b) /\ vocabularyPlace(a) < vocabularyPlace(b)
        \/ parentOf(a) # parentOf(b) /\ ranksBefore(parentOf(a), parentOf(b))

(***************************************************************************)
(* C22: the beam search stops at the first solved candidate.  Candidates   *)
(* are evaluated in order of program length, then parent rank, then place  *)
(* in the action vocabulary; only the last evaluated candidate can be      *)
(* solved, and then it is bestProgram; on the level that one move solves   *)
(* the returned program has one step although maxDepth is 2.               *)
(***************************************************************************)
C22_StopsAtFirstSolved ==
  /\ \A i \in DOMAIN search.evaluated :
       i < Len(search.evaluated) =>
         /\ ~search.evaluated[i].eval.solved
         /\ inSearchOrder(search.evaluated[i].program,
                          search.evaluated[i + 1].program)
  /\ search.solved =>
       /\ search.evaluated[Len(search.evaluated)].eval.solved
       /\ search.bestProgram
            = Some(search.evaluated[Len(search.evaluated)].program)
  /\ (/\ search.pc = "returned"
      /\ search.solved
      /\ search.level.grid = TinyLevel.grid
      /\ search.level.spawner[1].count = 1
      /\ search.level.requiredSaved = Some(1)) =>
       Len(searchResult(search).state.bestProgram[1].steps) = 1

C22_Witness ==
  /\ search.pc = "returned"
  /\ searchResult(search).solved
  /\ search.level.grid = TinyLevel.grid
  /\ search.level.requiredSaved = Some(1)
  /\ search.maxDepth = 2
  /\ Len(search.evaluated) = 3
  /\ searchResult(search).state.bestProgram = Some(ProgramNode(<<Move>>))

(***************************************************************************)
(* C23: progress reporting is advisory.  For the same level, options and   *)
(* clock outcomes the search returns the same solved flag, bestProgram,    *)
(* bestEval and attempts with or without an onProgress callback and for    *)
(* every progressEvery.  outcomeOf is a search state without its reporting *)
(* part; from every reachable state, the next step of the search has the   *)
(* same outcomeOf whatever the reporting part is, and so has the result.   *)
(***************************************************************************)
outcomeOf(s) ==
  [s EXCEPT !.options = [@ EXCEPT !.progressEvery = Null],
            !.progressEvery = 0,
            !.lastProgressAttempt = 0,
            !.onProgress = FALSE,
            !.reports = <<>>]

withReporting(s, every, last, callback) ==
  [s EXCEPT !.progressEvery = every,
            !.lastProgressAttempt = last,
            !.onProgress = callback]

rankedInOrder(entries) ==
  \A i, j \in DOMAIN entries :
    i < j => ranksBefore(entries[i].program, entries[j].program)

topOfLayer(entries, length) ==
  /\ Len(entries) <= search.beamWidth
  /\ \A i \in DOMAIN search.evaluated :
       Len(search.evaluated[i].program.steps) = length =>
         \/ \E k \in DOMAIN entries : entries[k] = search.evaluated[i]
         \/ /\ Len(entries) = search.beamWidth
            /\ \A k \in DOMAIN entries :
                 ranksBefore(entries[k].program, search.evaluated[i].program)

firstOfHighestScore ==
  search.bestEval # Null =>
    /\ search.evaluated[placeOf(search.bestProgram[1])].eval = search.bestEval[1]
    /\ \A i \in DOMAIN search.evaluated :
         /\ search.evaluated[i].eval.score <= search.bestEval[1].score
         /\ search.evaluated[i].eval.score = search.bestEval[1].score =>
              placeOf(search.bestProgram[1]) <= i

RECURSIVE runSearch(_)
runSearch(s) == IF s.pc = "returned" THEN s ELSE runSearch(searchStep(s))

C24_Reproducible ==
  /\ ~search.timeUp =>
       runSearch(search)
         = runSearch(createSearch(search.level, search.options,
                                  search.evalOptions, search.onProgress))
  /\ rankedInOrder(search.frontier)
  /\ rankedInOrder(search.candidates)
  /\ search.pc = "depth" => topOfLayer(search.frontier, search.depth)
  /\ firstOfHighestScore

C24_Witness ==
  /\ search.pc = "depth"
  /\ search.depth = 2
  /\ ~search.timeUp
  /\ search.beamWidth = 1
  /\ Len(search.evaluated) = 5
  /\ search.evaluated[4].eval.score = search.evaluated[5].eval.score
  /\ search.frontier = <<search.evaluated[4]>>
  /\ search.bestProgram = Some(search.evaluated[2].program)
  /\ search.evaluated[2].eval.score = search.evaluated[4].eval.score

(***************************************************************************)
(* C25: runSolverSearch always returns exactly one fully evaluated         *)
(* best-so-far.  On return, whichever budget stopped the search,           *)
(* bestProgram and bestEval are defined, bestEval is the evaluation of     *)
(* bestProgram, and its score is the maximum over all evaluated            *)
(* candidates.                                                             *)
(***************************************************************************)
C25_BestSoFarReturned ==
  search.pc = "returned" =>
    /\ searchResult(search).state.bestProgram # Null
    /\ searchResult(search).state.bestEval # Null
    /\ searchResult(search).state.bestEval[1]
         = evaluate(searchResult(search).state.bestProgram[1], search.level,
                    search.evalOptions)
    /\ \A i \in DOMAIN search.evaluated :
         search.evaluated[i].eval.score
           <= searchResult(search).state.bestEval[1].score

(***************************************************************************)
(* C26: solver host protocol.  For each start message the worker posts     *)
(* zero or more progress events followed by exactly one result event, the  *)
(* result is the last event of that search, and the attemptCount and       *)
(* bestScore of successive events never decrease.  Events are posted in    *)
(* the order of the start messages; within one search every event before   *)
(* another is a progress event with no larger attemptCount and bestScore;  *)
(* every search whose listener has returned has posted its result.         *)
(***************************************************************************)
C26_HostProtocol ==
  /\ \A i, j \in DOMAIN worker.posted :
       i < j =>
         /\ worker.posted[i].run <= worker.posted[j].run
         /\ worker.posted[i].run = worker.posted[j].run =>
              /\ worker.posted[i].type = "progress"
              /\ worker.posted[i].payload.attemptCount
                   <= worker.posted[j].payload.attemptCount
              /\ worker.posted[i].payload.bestScore
                   <= worker.posted[j].payload.bestScore
  /\ \A r \in 1..worker.run :
       (r < worker.run \/ ~worker.handling) =>
         \E i \in DOMAIN worker.posted :
           worker.posted[i].run = r /\ worker.posted[i].type = "result"

C26_Witness ==
  /\ ~worker.handling
  /\ worker.run = 1
  /\ Len(worker.posted) = 5
  /\ worker.posted[1].type = "progress"
  /\ worker.posted[1].payload.bestScore < worker.posted[3].payload.bestScore
  /\ worker.posted[5].type = "result"
  /\ worker.posted[5].payload.solved

(***************************************************************************)
(* C27: cancellation.  When the host sends a cancel message while the      *)
(* search of an earlier start message is still running, the worker posts   *)
(* no further progress event and no result event for that search: no       *)
(* posted event of a search was posted after the host had sent a cancel    *)
(* message during that search.                                             *)
(***************************************************************************)
C27_CancelSilences ==
  \A i \in DOMAIN worker.posted : ~worker.posted[i].cancelPending

(***************************************************************************)
(* C28: evaluate returns the maximum score observed over all ticks of the  *)
(* run together with the robot snapshot taken at the first tick that       *)
(* attained it: the returned score is at least the score computed at every *)
(* tick including the final one, and a run that ends with status won has   *)
(* score >= 5000 + 1000 * requiredSaved, also when the simulation is       *)
(* already won at creation.  scored lists the score and the robots of      *)
(* every tick of the run.                                                  *)
(***************************************************************************)
C28_MaxScoreReturned ==
  evaluation.returned # Null =>
    /\ \A i \in DOMAIN evaluation.scored :
         evaluation.returned[1].score >= evaluation.scored[i].score
    /\ evaluation.scored # <<>> =>
         \E i \in DOMAIN evaluation.scored :
           /\ evaluation.scored[i].score = evaluation.returned[1].score
           /\ evaluation.scored[i].robots = evaluation.returned[1].bestRobots
           /\ \A j \in 1..(i - 1) :
                evaluation.scored[j].score < evaluation.returned[1].score
    /\ evaluation.returned[1].solved =>
         evaluation.returned[1].score
           >= 5000 + 1000 * evaluation.simulation.requiredSaved

(***************************************************************************)
(* C29: a robot with alive = false never has reachedGoal = true and never  *)
(* counts toward the saved quota: in every reachable state each robot is   *)
(* active (alive, not saved), saved (alive, reachedGoal) or dead (not      *)
(* alive, not saved), also when an explicit exit coincides with a Hazard   *)
(* or Water cell.                                                          *)
(***************************************************************************)
C29_DeadNeverSaved ==
  \A i \in DOMAIN state.robots :
    ~state.robots[i].alive => ~state.robots[i].reachedGoal

(***************************************************************************)
(* C30: raft position mirrors the grid.  In every reachable state the      *)
(* world tile at the position of every raft of raftStates is Raft, no two  *)
(* rafts share a cell, and the number of Raft tiles in the grid equals the *)
(* number of rafts, also with several rafts sharing the same jetty route.  *)
(***************************************************************************)
C30_RaftMirrorsGrid ==
  /\ \A i \in DOMAIN state.raftStates :
       getTile(state.world, state.raftStates[i].x, state.raftStates[i].y) = Raft
  /\ \A i, j \in DOMAIN state.raftStates :
       i # j => \/ state.raftStates[i].x # state.raftStates[j].x
                \/ state.raftStates[i].y # state.raftStates[j].y
  /\ Len(listPositionsForTile(state.world, Raft)) = Len(state.raftStates)

(***************************************************************************)
(* Notation for the raft claims: the robots standing on a raft's cell      *)
(* after the move phase of a tick, and the stops of the raft's route.      *)
(***************************************************************************)
onCell(robot, cell) == robot.x = cell.x /\ robot.y = cell.y

ridersOf(robots, raft) ==
  {i \in DOMAIN robots : isBlockingRobot(robots[i]) /\ onCell(robots[i], raft)}

nextDock(raft) == (raft.dockIndex + 1) % Len(raft.route)

stopHeld(robots, raft, stop) ==
  \E i \in DOMAIN robots :
    /\ i \notin ridersOf(robots, raft)
    /\ isBlockingRobot(robots[i])
    /\ onCell(robots[i], stop)

ferried(s, acts, r, robots, after) ==
  /\ onCell(after.raftStates[r], s.raftStates[r].route[nextDock(s.raftStates[r]) + 1])
  /\ after.raftStates[r].dockIndex = nextDock(s.raftStates[r])
  /\ after.raftStates[r].returnIndex = Some(s.raftStates[r].dockIndex)
  /\ \A i \in DOMAIN robots :
       onCell(robots[i], s.raftStates[r]) =>
         onCell(after.robots[i], s.raftStates[r].route[nextDock(s.raftStates[r]) + 1])

held(s, acts, r, robots, after) ==
  /\ after.raftStates[r] = s.raftStates[r]
  /\ \A i \in ridersOf(robots, s.raftStates[r]) :
       onCell(after.robots[i], s.raftStates[r])
  /\ getTile(after.world, s.raftStates[r].x, s.raftStates[r].y) = Raft
  /\ Len(s.raftStates) = 1 => after.world = s.world

ferryRule(s, acts, r, robots) ==
  ridersOf(robots, s.raftStates[r]) # {} =>
    IF stopHeld(robots, s.raftStates[r],
                s.raftStates[r].route[nextDock(s.raftStates[r]) + 1])
      THEN held(s, acts, r, robots, stepSimulation(s, acts))
      ELSE ferried(s, acts, r, robots, stepSimulation(s, acts))

(***************************************************************************)
(* C31: raft ferry with a rider.  After the move phase of a tick, if a     *)
(* blocking robot stands on a raft's cell and the next stop of the raft's  *)
(* cyclic route holds no other blocking robot, then in the same tick the   *)
(* raft and every robot on its cell are moved to that stop, dockIndex      *)
(* becomes (dockIndex + 1) mod route length and returnIndex becomes the    *)
(* previous dockIndex; if the stop holds another blocking robot the raft,  *)
(* its riders and the grid are unchanged.                                  *)
(***************************************************************************)
C31_FerryWithRider ==
  Running =>
    \A acts \in ActionArrays(state) :
      \A r \in DOMAIN state.raftStates :
        ferryRule(state, acts, r, resolvedRobots(state, acts))

(***************************************************************************)
(* C32: empty raft return.  In a tick where no blocking robot is on a raft *)
(* after the move phase, the raft moves iff returnIndex is non-null,       *)
(* differs from dockIndex and the stop route[returnIndex] holds no         *)
(* blocking robot; it then moves to that stop, dockIndex becomes           *)
(* returnIndex and returnIndex becomes null, so an abandoned raft makes at *)
(* most one empty move and then stays until it is boarded again.           *)
(***************************************************************************)
returnPending(raft) ==
  raft.returnIndex # Null /\ raft.dockIndex # raft.returnIndex[1]

returnStopHeld(robots, raft) ==
  \E i \in DOMAIN robots :
    isBlockingRobot(robots[i]) /\ onCell(robots[i], raft.route[raft.returnIndex[1] + 1])

returned(raft, after) ==
  /\ onCell(after, raft.route[raft.returnIndex[1] + 1])
  /\ after.dockIndex = raft.returnIndex[1]
  /\ after.returnIndex = Null

emptyRule(s, acts, r, robots) ==
  ridersOf(robots, s.raftStates[r]) = {} =>
    IF returnPending(s.raftStates[r]) /\ ~returnStopHeld(robots, s.raftStates[r])
      THEN returned(s.raftStates[r], stepSimulation(s, acts).raftStates[r])
      ELSE stepSimulation(s, acts).raftStates[r] = s.raftStates[r]

C32_EmptyReturn ==
  Running =>
    \A acts \in ActionArrays(state) :
      \A r \in DOMAIN state.raftStates :
        emptyRule(state, acts, r, resolvedRobots(state, acts))

(***************************************************************************)
(* Notation for the spawn claims: the bookkeeping every state keeps, what  *)
(* one more tick may do to the robot array, and the robots that exist at   *)
(* creation (stepCount = 0) when all are spawned at once.                  *)
(***************************************************************************)
spawnCounts(s) ==
  /\ Len(s.robots) = s.spawnedCount
  /\ s.spawnedCount <= s.spawner.count
  /\ \A i \in DOMAIN s.robots : s.robots[i].id = <<"robot", i>>

appendsOnly(s, after) ==
  /\ Len(after.robots) \in {Len(s.robots), Len(s.robots) + 1}
  /\ \A i \in DOMAIN s.robots : after.robots[i].id = s.robots[i].id
  /\ s.spawner.intervalTicks <= 0 => Len(after.robots) = Len(s.robots)

allAtCreation(s) ==
  (s.stepCount = 0 /\ s.spawner.intervalTicks <= 0) =>
    Len(s.robots) = s.spawner.count

spawnsNow(s) ==
  s.status = "running" /\ Len(spawnedRobots(s)) > Len(s.robots)

RECURSIVE quietFor(_, _)
quietFor(s, n) ==
  \/ n <= 0
  \/ /\ ~spawnsNow(s)
     /\ \A acts \in ActionArrays(s) : quietFor(stepSimulation(s, acts), n - 1)

(***************************************************************************)
(* C34: under interval spawning (intervalTicks = k > 0) robots are         *)
(* released one per interval: any two consecutive spawns are at least k    *)
(* ticks apart, also after a spawn was deferred because the entry cell was *)
(* occupied.  The creation spawn is followed by k ticks without a spawn,   *)
(* and a tick that spawns by k - 1 ticks without one.                      *)
(***************************************************************************)
C34_SpawnSpacing ==
  state.spawner.intervalTicks > 0 =>
    /\ (state.stepCount = 0 /\ Len(state.robots) > 0) =>
         quietFor(state, state.spawner.intervalTicks)
    /\ spawnsNow(state) =>
         \A acts \in ActionArrays(state) :
           quietFor(stepSimulation(state, acts), state.spawner.intervalTicks - 1)

(***************************************************************************)
(* Notation for C35: robot index steps onto a pressure plate in the tick   *)
(* that applies acts to s; every advance into a free door cell moves the   *)
(* robot in the tick that starts in s.                                     *)
(***************************************************************************)
stepsOntoPlate(s, acts, index) ==
  /\ advances(s, acts, index)
  /\ ~stayed(s, acts, index)
  /\ isPressurePlate(s.world, forwardOf(s, index).x, forwardOf(s, index).y)

doorsPassable(s) ==
  \A acts \in ActionArrays(s) :
    \A j \in DOMAIN acts :
      (entersDoor(s, acts, j) /\ doorCellFree(s, acts, j)) => ~stayed(s, acts, j)

RECURSIVE lastSignal(_, _, _)
lastSignal(acts, n, before) ==
  IF n = 0 THEN before
  ELSE IF acts[n] = "SIGNAL_ON" THEN TRUE
  ELSE IF acts[n] = "SIGNAL_OFF" THEN FALSE
  ELSE lastSignal(acts, n - 1, before)

Stationary == {"SIGNAL_ON", "SIGNAL_OFF", "TURN_LEFT", "TURN_RIGHT", "WAIT"}

(***************************************************************************)
(* C36: globalSignal after a tick equals the value written by the last     *)
(* SIGNAL_ON / SIGNAL_OFF action in robot-array order in that tick and is  *)
(* unchanged when the tick contains no signal action; signal, turn and     *)
(* wait actions never change any robot's position.                         *)
(***************************************************************************)
C36_GlobalSignal ==
  Running =>
    \A acts \in ActionArrays(state) :
      /\ stepSimulation(state, acts).globalSignal
           = lastSignal(acts, Len(acts), state.globalSignal)
      /\ \A i \in DOMAIN acts : acts[i] \in Stationary => stayed(state, acts, i)

C36_Witness ==
  /\ Running
  /\ state.globalSignal
  /\ Len(spawnedRobots(state)) = 2
  /\ \E acts \in ActionArrays(state) :
       /\ acts[1] = "SIGNAL_OFF"
       /\ acts[2] = "SIGNAL_ON"
       /\ stepSimulation(state, acts).globalSignal
  /\ \E acts \in ActionArrays(state) :
       /\ acts[1] = "SIGNAL_OFF"
       /\ acts[2] = "TURN_LEFT"
       /\ ~stepSimulation(state, acts).globalSignal
       /\ stayed(state, acts, 2)

(***************************************************************************)
(* Notation for C37: what one iteration of evaluate's loop does to the VM  *)
(* of robot index and to the robot itself.                                 *)
(***************************************************************************)
statusMove(before, after) ==
  after.status # before.status =>
    (before.status = "running" /\ after.status \in {"done", "step_limit"})

finishedVmIdle(run, index) ==
  /\ stepVm(run.vmStates[index],
            vmContextOf(run.simulation, run.simulation.robots[index]))
       = [state |-> run.vmStates[index], action |-> NoAction]
  /\ stepRobotVms(run)[index].action = NoAction
  /\ stepRobotVms(run)[index].state = run.vmStates[index]

(***************************************************************************)
(* C37: VM status only moves from running to done or from running to       *)
(* step_limit; once the status is done or step_limit every later stepVm    *)
(* call returns the state unchanged and no action, so a finished robot     *)
(* contributes no further actions while remaining a blocking robot on the  *)
(* board.                                                                  *)
(***************************************************************************)
C37_VmStatusAbsorbing ==
  [][\A i \in DOMAIN evaluation.vmStates :
       /\ i \in DOMAIN evaluation'.vmStates
       /\ statusMove(evaluation.vmStates[i], evaluation'.vmStates[i])
       /\ evaluation.vmStates[i].status # "running" =>
            /\ evaluation'.vmStates[i] = evaluation.vmStates[i]
            /\ finishedVmIdle(evaluation, i)
            /\ isBlockingRobot(evaluation.simulation.robots[i]) =>
                 evaluation'.simulation.robots[i] = evaluation.simulation.robots[i]]_vars

C37_Witness ==
  /\ evaluation.tickIndex >= 3
  /\ \E i \in DOMAIN evaluation.vmStates :
       /\ evaluation.vmStates[i].status = "done"
       /\ isBlockingRobot(evaluation.simulation.robots[i])
       /\ \E j \in DOMAIN evaluation.simulation.robots :
            j # i /\ ~samePosition(evaluation.simulation.robots[j],
                                   evaluation.simulation.robots[i])

(***************************************************************************)
(* C38: stepVm is a pure state-in/state-out step: it never modifies the    *)
(* VmState passed in, so stepping the same VmState twice with the same     *)
(* context returns equal results and a saved VmState can be resumed later. *)
(* After a call the caller's frames are as before the call, and a second   *)
(* call on them returns what the first returned.                           *)
(***************************************************************************)
C38_StepVmPure ==
  pc = "idle" =>
    \A ctx \in VmContexts :
      /\ stackAfterStepVm(vm, ctx) = vm.stack
      /\ stepVm([vm EXCEPT !.stack = stackAfterStepVm(vm, ctx)], ctx) = stepVm(vm, ctx)

C38_Witness ==
  /\ pc = "idle"
  /\ vm.status = "running"
  /\ Len(vm.stack) >= 2
  /\ vm.stack[Len(vm.stack)].kind = "repeat"
  /\ vm.stack[Len(vm.stack)].index > 0
  /\ \E ctx \in VmContexts :
       /\ stepVm(vm, ctx).action # NoAction
       /\ stepVm(vm, ctx).state.stack # vm.stack
       /\ stackAfterStepVm(vm, ctx) = vm.stack

(***************************************************************************)
(* C39: if during an evaluate run any robot moves onto a Water tile, the   *)
(* returned events.waterTouched is true; each milestone flag of events,    *)
(* once true at some tick, stays true in the result.  scored lists the     *)
(* robots and the events of every tick of the run.                         *)
(***************************************************************************)
Milestones ==
  {"doorOpened", "pressurePlatePressed", "raftUsed", "waterTouched", "anySaved"}

onWaterAt(run, tick) ==
  \E i \in DOMAIN run.scored[tick].robots :
    isWater(run.simulation.world, run.scored[tick].robots[i].x,
            run.scored[tick].robots[i].y)

C39_WaterTouched ==
  evaluation.returned # Null =>
    /\ (\E tick \in DOMAIN evaluation.scored : onWaterAt(evaluation, tick))
         => evaluation.returned[1].events.waterTouched
    /\ \A tick \in DOMAIN evaluation.scored :
         \A flag \in Milestones :
           evaluation.scored[tick].events[flag] => evaluation.returned[1].events[flag]

(***************************************************************************)
(* C40: replay equivalence.  When a replay of a run that was recorded from *)
(* a fresh simulation has run to its end, the simulations it has shown are *)
(* the simulations the original run showed, in the same order, and it ends *)
(* in the status the original run ended in, also when the original run     *)
(* ended because a robot's VM hit its step limit.                          *)
(***************************************************************************)
replayFinished(a) ==
  /\ ~a.isReplaying
  /\ a.replayed # <<>>
  /\ \/ a.simulation.status # "running"
     \/ a.replayIndex >= Len(a.lastRunActions)

C40_ReplayEquivalence ==
  (replayFinished(app) /\ app.lastRunStates # <<>>) =>
    /\ app.replayed = app.lastRunStates
    /\ app.simulation.status =
         app.lastRunStates[Len(app.lastRunStates)].status

====
